---- MODULE Spec2Model ----
(***************************************************************************)
(* A model of lazytool's data layer (src/lazytool/data.py, DataManager):   *)
(* the in-memory document (todos, journal, moods, goals, notes, timeline,  *)
(* settings), the file it is saved to, the wall clock the handlers read,   *)
(* and the derived views.                                                  *)
(*                                                                         *)
(* Representation.                                                         *)
(*   - A datetime object is an integer number of clock ticks since         *)
(*     day 0, 00:00:00.  A second has SubSec ticks (datetime.now() is      *)
(*     finer than the whole seconds the program stores), a day has DayLen  *)
(*     seconds.                                                            *)
(*   - An ISO timestamp string "YYYY-MM-DDTHH:MM:SS" is the pair           *)
(*     <<day, second of day>>; an ISO date string "YYYY-MM-DD" is the day  *)
(*     number.  String order on these fixed-width strings is the           *)
(*     lexicographic order of the pairs, resp. the order of the days.      *)
(*   - Python's None is the empty tuple; a dict is a record, and a key     *)
(*     that is absent from the dict is absent from the record's DOMAIN.    *)
(*   - uuid4().hex[:8] identifiers are integers.  The values uuid4 returns *)
(*     in a run are fixed by the initial state (uuids); the state machines *)
(*     start from a run without repeated values unless said otherwise.     *)
(***************************************************************************)
EXTENDS Integers, Sequences, FiniteSets, TLC

VARIABLES
    clock,      \* the wall clock, in ticks
    issued,     \* how many identifiers _new_id has handed out
    uuids,      \* what uuid4().hex[:8] returns on its 1st, 2nd, ... call
    todos,      \* self._data["todos"]
    journal,    \* self._data["journal"]
    moods,      \* self._data["moods"]
    goals,      \* self._data["goals"]
    notes,      \* self._data["notes"]
    timeline,   \* self._data["timeline"]
    settings,   \* self._data["settings"]
    disk,       \* the data file: what is at its path, see FileKinds
    last        \* the most recent call on the DataManager and what it returned

vars == <<clock, issued, uuids, todos, journal, moods, goals, notes, timeline,
          settings, disk, last>>

----------------------------------------------------------------------------
(* Bounds of the model. *)

SubSec == 2          \* clock ticks per second
DayLen == 3          \* seconds per day
NumDays == 3         \* calendar days 0 .. NumDays-1 of the bounded inputs
MaxIds == 3          \* identifiers handed out in one run
MaxEvents == 2       \* timeline events held at once
MaxDrift == 1        \* ticks that may pass between two clock reads of one handler
MaxRunTicks == 2     \* ticks the clock advances in one run of a state machine

DayTicks == DayLen * SubSec

\* a state machine's run starts in the last second of day 0, so that its
\* handlers run on both sides of midnight
BootTick == DayTicks - SubSec

None == <<>>

\* DEFAULT_DATA["settings"]
DefaultStatsDays == 7
DEFAULT_SETTINGS == "stats_days" :> DefaultStatsDays
NoCall == [op |-> "none"]

Min(a, b) == IF a <= b THEN a ELSE b
Max(a, b) == IF a >= b THEN a ELSE b

Days == 0 .. (NumDays - 1)
\* every whole-second ISO timestamp of the bounded days
Stamps == {<<d, s>> : d \in Days, s \in 0 .. (DayLen - 1)}

----------------------------------------------------------------------------
(* Clock and string conversions. *)

\* datetime.isoformat(timespec="seconds"): the sub-second part is dropped
isoformat(t) == <<t \div DayTicks, (t % DayTicks) \div SubSec>>

\* datetime.fromisoformat on a whole-second ISO timestamp
fromisoformat(s) == s[1] * DayTicks + s[2] * SubSec

\* DataManager._now, read when the clock shows c
now_str(c) == isoformat(c)

\* DataManager._today, read when the clock shows c
today_str(c) == c \div DayTicks

\* a run of uuid4 in which no value comes twice: the k-th call returns k
FreshIds == [k \in 1 .. MaxIds |-> k]

\* DataManager._new_id after n earlier calls
new_id(n) == uuids[n + 1]

\* the document self._data with the given collections; the key habits is
\* never touched by the program and stays the empty list
document(td, jr, md, gl, nt, tl, st) ==
    [todos |-> td, journal |-> jr, moods |-> md, habits |-> <<>>, goals |-> gl,
     notes |-> nt, timeline |-> tl, settings |-> st]

\* what can be at the path of the data file:
\*   absent       no file
\*   unreadable   open or read fails with an OSError (IOError)
\*   not_json     text that json.load rejects with JSONDecodeError
\*   not_utf8     bytes that are not UTF-8: reading raises UnicodeDecodeError
\*   json_array, json_null, json_number, json_string
\*                valid JSON whose top-level value is not an object
\*   json_object  valid JSON of an object; the field data holds its content
FileKinds ==
    {"absent", "unreadable", "not_json", "not_utf8", "json_array", "json_null",
     "json_number", "json_string", "json_object"}

NoFile == [kind |-> "absent"]

\* the file json.dump(data) leaves
json_dump(data) == [kind |-> "json_object", data |-> data]

\* _save that writes the default settings in place of the stored ones
save_all_default_settings(td, jr, md, gl, nt, tl, st) ==
    json_dump(document(td, jr, md, gl, nt, tl, DEFAULT_SETTINGS))

\* DataManager._save: the whole document is rewritten
save_all(td, jr, md, gl, nt, tl, st) ==
    json_dump(document(td, jr, md, gl, nt, tl, st))

\* DataManager._save in a handler that leaves journal, moods and notes alone
save(td, gl, tl, st) == save_all(td, journal, moods, gl, notes, tl, st)

\* the clock values a handler may read after having read c
LaterReads(c) == c .. (c + MaxDrift)

----------------------------------------------------------------------------
(* Timeline. *)

\* index of the first event with the given id, 0 when there is none
FirstWithId(tl, event_id) ==
    IF \E i \in 1 .. Len(tl) : tl[i].id = event_id
    THEN CHOOSE i \in 1 .. Len(tl) :
             /\ tl[i].id = event_id
             /\ \A j \in 1 .. (i - 1) : tl[j].id # event_id
    ELSE 0

\* DataManager.get_active_event: index of the first event whose end_time is
\* None, 0 for Python's None
get_active_event(tl) ==
    IF \E i \in 1 .. Len(tl) : tl[i].end_time = None
    THEN CHOOSE i \in 1 .. Len(tl) :
             /\ tl[i].end_time = None
             /\ \A j \in 1 .. (i - 1) : tl[j].end_time # None
    ELSE 0

\* end_event with the assignment to end_time left out
end_event_skipped(tl, event_id, stamp) == tl

\* the loop of DataManager.end_event with _now() read as stamp
end_event(tl, event_id, stamp) ==
    LET i == FirstWithId(tl, event_id)
    IN  IF i = 0 THEN tl ELSE [tl EXCEPT ![i].end_time = stamp]

\* start_event without the call of end_event on the active event
start_event_keeps_active(tl, id, name, stamp1, day, stamp2) ==
    Append(tl, [id |-> id, name |-> name, date |-> day,
                start_time |-> stamp2, end_time |-> None])

\* the timeline DataManager.start_event leaves: the active event, if any, is
\* ended at stamp1, then the new event is appended
start_event(tl, id, name, stamp1, day, stamp2) ==
    LET a == get_active_event(tl)
        ended == IF a # 0 THEN end_event(tl, tl[a].id, stamp1) ELSE tl
    IN  Append(ended, [id |-> id, name |-> name, date |-> day,
                       start_time |-> stamp2, end_time |-> None])

\* edit_event_time that writes both arguments as they are, None included
edit_event_time_writes_none(tl, event_id, start_time, end_time) ==
    LET i == FirstWithId(tl, event_id)
    IN  IF i = 0 THEN tl
        ELSE [tl EXCEPT ![i].start_time = start_time, ![i].end_time = end_time]

\* the loop of DataManager.edit_event_time; an argument None is left out
edit_event_time(tl, event_id, start_time, end_time) ==
    LET i == FirstWithId(tl, event_id)
        s == IF start_time # None THEN start_time ELSE tl[i].start_time
        e == IF end_time # None THEN end_time ELSE tl[i].end_time
    IN  IF i = 0 THEN tl
        ELSE [tl EXCEPT ![i].start_time = s, ![i].end_time = e]

\* delete_event that also drops every event stored after the one deleted
delete_event_and_later(tl, event_id) ==
    LET i == FirstWithId(tl, event_id)
    IN  IF i = 0 THEN tl ELSE SubSeq(tl, 1, i - 1)

\* the list comprehension of DataManager.delete_event
delete_event(tl, event_id) ==
    SelectSeq(tl, LAMBDA ev : ev.id # event_id)

EventNames == {"work"}

\* the ids a caller passes: every id handed out so far, and one that was not
KnownIds == 1 .. (issued + 1)

StartEvent(name) ==
    /\ Len(timeline) < MaxEvents
    /\ issued < MaxIds
    /\ \E c1 \in LaterReads(clock) : \E c2 \in LaterReads(clock) :
       \E c3 \in LaterReads(clock) :
          /\ c1 <= c2 /\ c2 <= c3
          /\ LET a == get_active_event(timeline)
                 tl == start_event(timeline, new_id(issued), name,
                                   now_str(c1), today_str(c2), now_str(c3))
             IN  /\ timeline' = tl
                 /\ disk' = save(todos, goals, tl, settings)
                 /\ last' = [op |-> "start_event",
                             prev |-> IF a = 0 THEN 0 ELSE timeline[a].id,
                             ret |-> tl[Len(tl)]]
          /\ clock' = c3
    /\ issued' = issued + 1
    /\ UNCHANGED <<todos, goals, settings, journal, moods, notes, uuids>>

EndEvent(event_id) ==
    /\ timeline' = end_event(timeline, event_id, now_str(clock))
    /\ disk' = save(todos, goals, timeline', settings)
    /\ last' = [op |-> "end_event",
                found |-> FirstWithId(timeline, event_id) # 0]
    /\ UNCHANGED <<clock, issued, todos, goals, settings,
                   journal, moods, notes, uuids>>

EditEventTime(event_id, start_time, end_time) ==
    /\ timeline' = edit_event_time(timeline, event_id, start_time, end_time)
    /\ disk' = save(todos, goals, timeline', settings)
    /\ last' = [op |-> "edit_event_time", event_id |-> event_id,
                start_time |-> start_time, end_time |-> end_time,
                found |-> FirstWithId(timeline, event_id) # 0]
    /\ UNCHANGED <<clock, issued, todos, goals, settings,
                   journal, moods, notes, uuids>>

DeleteEvent(event_id) ==
    /\ timeline' = delete_event(timeline, event_id)
    /\ disk' = save(todos, goals, timeline', settings)
    /\ last' = [op |-> "delete_event", id |-> event_id,
                found |-> FirstWithId(timeline, event_id) # 0]
    /\ UNCHANGED <<clock, issued, todos, goals, settings,
                   journal, moods, notes, uuids>>

\* time passes between two calls
Tick ==
    /\ clock < BootTick + MaxRunTicks
    /\ clock' = clock + 1
    /\ last' = NoCall
    /\ UNCHANGED <<issued, todos, goals, timeline, settings, disk,
                   journal, moods, notes, uuids>>

\* the state after DataManager() on a machine without a data file
Init ==
    /\ clock = BootTick
    /\ issued = 0
    /\ uuids = FreshIds
    /\ todos = <<>>
    /\ journal = <<>>
    /\ moods = <<>>
    /\ goals = <<>>
    /\ notes = <<>>
    /\ timeline = <<>>
    /\ settings = DEFAULT_SETTINGS
    /\ disk = NoFile
    /\ last = NoCall

\* the timestamps a caller passes to edit_event_time
EditStamps == {<<0, 0>>, <<1, 1>>}

NextTimeline ==
    \/ \E name \in EventNames : StartEvent(name)
    \/ \E id \in KnownIds : EndEvent(id)
    \/ \E id \in KnownIds : \E s \in EditStamps \cup {None} :
       \E e \in EditStamps \cup {None} : EditEventTime(id, s, e)
    \/ \E id \in KnownIds : DeleteEvent(id)
    \/ Tick

SpecTimeline == Init /\ [][NextTimeline]_vars

\* the indexes of the events without an end_time
ActiveEvents(tl) == {i \in 1 .. Len(tl) : tl[i].end_time = None}

\* C1: after any sequence of start_event, end_event, edit_event_time and
\* delete_event calls from an empty timeline, at most one timeline event has
\* end_time None.
C1_AtMostOneActive == Cardinality(ActiveEvents(timeline)) <= 1

\* start_event was called while an event was active; the timeline now holds
\* the ended event and the new, active one
C1_Witness ==
    /\ last.op = "start_event"
    /\ last.prev # 0
    /\ Len(timeline) = 2
    /\ Cardinality(ActiveEvents(timeline)) = 1

\* C10: right after start_event returns, the event that was active before the
\* call (if any) has an end_time that is not None and not later than the new
\* event's start_time, and get_active_event() returns the new event.
C10_StartEndsPrevious ==
    last.op = "start_event" =>
        /\ last.prev # 0 =>
              LET i == FirstWithId(timeline, last.prev)
              IN  /\ i # 0
                  /\ timeline[i].end_time # None
                  /\ fromisoformat(timeline[i].end_time)
                        <= fromisoformat(last.ret.start_time)
        /\ get_active_event(timeline) # 0
        /\ timeline[get_active_event(timeline)] = last.ret

\* start_event has just ended an active event, and the clock moved on between
\* the end_time it wrote and the start_time of the new event
C10_Witness ==
    /\ last.op = "start_event"
    /\ last.prev # 0
    /\ LET i == FirstWithId(timeline, last.prev)
       IN  /\ i # 0
           /\ timeline[i].end_time # None
           /\ fromisoformat(timeline[i].end_time)
                 < fromisoformat(last.ret.start_time)

----------------------------------------------------------------------------
(* Timeline views. *)

\* the overlap test with < for <=: an event that ends at 00:00:00 is kept
overlaps_day_strict(ev_start, ev_end, day_start_dt, day_end_dt) ==
    ~(ev_end < day_start_dt \/ ev_start > day_end_dt)

\* the overlap test of get_events_for_date: the event is skipped when
\* ev_end <= day_start_dt or ev_start > day_end_dt
overlaps_day(ev_start, ev_end, day_start_dt, day_end_dt) ==
    ~(ev_end <= day_start_dt \/ ev_start > day_end_dt)

\* the clamp of the end without the added second
clamped_end_exclusive(ev_end, day_end_dt) == Min(ev_end, day_end_dt)

\* clamped_end = min(ev_end, day_end_dt + timedelta(seconds=1))
clamped_end(ev_end, day_end_dt) == Min(ev_end, day_end_dt + SubSec)

\* clamped_start = max(ev_start, day_start_dt)
clamped_start(ev_start, day_start_dt) == Max(ev_start, day_start_dt)

\* ev_end of get_events_for_date: the parsed end_time, or datetime.now() (not
\* cut to whole seconds) for an event without one
effective_end(ev, now) ==
    IF ev.end_time # None THEN fromisoformat(ev.end_time) ELSE now

\* DataManager.get_events_for_date when datetime.now() returns now
get_events_for_date(tl, target_date, now) ==
    LET day_start_dt == target_date * DayTicks
        day_end_dt == target_date * DayTicks + (DayLen - 1) * SubSec
        keep(ev) == overlaps_day(fromisoformat(ev.start_time),
                                 effective_end(ev, now),
                                 day_start_dt, day_end_dt)
        entry(ev) ==
            ("_day_start" :> isoformat(clamped_start(
                                 fromisoformat(ev.start_time), day_start_dt)))
            @@ ("_day_end" :> isoformat(clamped_end(
                                 effective_end(ev, now), day_end_dt)))
            @@ ("_is_spillover" :> (ev.date # target_date))
            @@ ev
        kept == SelectSeq(tl, keep)
    IN  [i \in 1 .. Len(kept) |-> entry(kept[i])]

GetEventsForDate(target_date) ==
    /\ last' = [op |-> "get_events_for_date", target_date |-> target_date,
                now |-> clock,
                ret |-> get_events_for_date(timeline, target_date, clock)]
    /\ UNCHANGED <<clock, issued, todos, goals, timeline, settings, disk,
                   journal, moods, notes, uuids>>

\* the stored events the view is applied to: any whole-second start, any
\* whole-second end or none, any origin date
StoredEvents ==
    [id : {1}, name : {"work"}, date : Days, start_time : Stamps,
     end_time : Stamps \cup {None}]

\* a second event, started at 00:00:00 of day 1: running, or ended on day 2
LaterEvents ==
    [id : {2}, name : {"rest"}, date : {1}, start_time : {<<1, 0>>},
     end_time : {None, <<2, 1>>}]

\* a store that holds one or two timeline events, at any time of the
\* bounded days
InitEvents ==
    /\ clock \in 0 .. (NumDays * DayTicks - 1)
    /\ issued = 2
    /\ uuids = FreshIds
    /\ todos = <<>>
    /\ journal = <<>>
    /\ moods = <<>>
    /\ goals = <<>>
    /\ notes = <<>>
    /\ timeline \in {<<e>> : e \in StoredEvents}
                    \cup {<<e, f>> : e \in StoredEvents, f \in LaterEvents}
    /\ settings = DEFAULT_SETTINGS
    /\ disk = save(todos, goals, timeline, settings)
    /\ last = NoCall

NextEvents ==
    \E target_date \in Days : GetEventsForDate(target_date)

SpecEvents == InitEvents /\ [][NextEvents]_vars

\* the ids of the entries a view returned
ReturnedIds(ret) == {ret[i].id : i \in 1 .. Len(ret)}

\* the end of an event as a datetime: its end_time, else the current time
EffEnd(ev, now) ==
    IF ev.end_time = None THEN now ELSE fromisoformat(ev.end_time)

\* C2: get_events_for_date(D) returns an event iff it is not the case that
\* effective_end <= D 00:00:00 or start_time > D 23:59:59 (effective_end: the
\* end_time if set, the current time otherwise); an event from late on day X
\* to early on day X+1 is returned for X and X+1 and for no other day.
C2_ReturnedIffOverlap ==
    last.op = "get_events_for_date" =>
        LET D == last.target_date
        IN  /\ \A i \in 1 .. Len(timeline) :
                 LET ev == timeline[i]
                 IN  /\ (ev.id \in ReturnedIds(last.ret))
                        <=> ~(\/ EffEnd(ev, last.now) <= fromisoformat(<<D, 0>>)
                              \/ fromisoformat(ev.start_time)
                                    > fromisoformat(<<D, DayLen - 1>>))
                     /\ \A X \in Days :
                          (/\ ev.start_time = <<X, DayLen - 1>>
                           /\ ev.end_time = <<X + 1, 1>>)
                          => ((ev.id \in ReturnedIds(last.ret))
                                 <=> D \in {X, X + 1})
            /\ Len(last.ret) = Cardinality(ReturnedIds(last.ret))

\* the view was asked for day X+1 of an event from the last second of day X
\* to 00:00:01 of day X+1, returned it, and left a second event out
C2_Witness ==
    /\ last.op = "get_events_for_date"
    /\ Len(timeline) = 2
    /\ timeline[1].start_time = <<last.target_date - 1, DayLen - 1>>
    /\ timeline[1].end_time = <<last.target_date, 1>>
    /\ ReturnedIds(last.ret) = {1}

\* the entry of the event with the given id among the returned ones
EntryOf(ret, id) == ret[CHOOSE i \in 1 .. Len(ret) : ret[i].id = id]

\* C3 as stated: for every returned entry, _day_start is
\* max(start_time, D 00:00:00) and _day_end is
\* min(effective_end, (D+1) 00:00:00), as points in time.
C3_ClampedExact ==
    last.op = "get_events_for_date" =>
        LET D == last.target_date
        IN  \A i \in 1 .. Len(timeline) :
               LET ev == timeline[i]
               IN  ev.id \in ReturnedIds(last.ret) =>
                      LET en == EntryOf(last.ret, ev.id)
                      IN  /\ fromisoformat(en["_day_start"])
                             = Max(fromisoformat(ev.start_time), D * DayTicks)
                          /\ fromisoformat(en["_day_end"])
                             = Min(EffEnd(ev, last.now), (D + 1) * DayTicks)

\* C3, amended: for every returned entry, _day_start is
\* max(start_time, D 00:00:00) and _day_end is
\* min(effective_end, (D+1) 00:00:00) with the part below a second dropped;
\* both lie within [D 00:00:00, (D+1) 00:00:00]; an event that runs through
\* the midnight after D has _day_end (D+1)T00:00:00 on D, and one that runs
\* through the midnight before D has _day_start D T00:00:00 on D.
C3_ClampedToSeconds ==
    last.op = "get_events_for_date" =>
        LET D == last.target_date
        IN  \A i \in 1 .. Len(timeline) :
               LET ev == timeline[i]
                   st == fromisoformat(ev.start_time)
               IN  ev.id \in ReturnedIds(last.ret) =>
                      LET en == EntryOf(last.ret, ev.id)
                          ds == fromisoformat(en["_day_start"])
                          de == fromisoformat(en["_day_end"])
                      IN  /\ en["_day_start"] = isoformat(Max(st, D * DayTicks))
                          /\ en["_day_end"]
                             = isoformat(Min(EffEnd(ev, last.now),
                                             (D + 1) * DayTicks))
                          /\ D * DayTicks <= ds /\ ds <= (D + 1) * DayTicks
                          /\ D * DayTicks <= de /\ de <= (D + 1) * DayTicks
                          /\ EffEnd(ev, last.now) >= (D + 1) * DayTicks
                             => en["_day_end"] = <<D + 1, 0>>
                          /\ st <= D * DayTicks
                             => en["_day_start"] = <<D, 0>>

\* the view returned, for the day it started on, an event that was still
\* running after the following midnight
C3_Witness ==
    /\ last.op = "get_events_for_date"
    /\ \E i \in 1 .. Len(last.ret) :
          /\ last.ret[i].end_time = None
          /\ last.ret[i].start_time[1] = last.target_date
          /\ last.ret[i].start_time[2] > 0
          /\ last.now > (last.target_date + 1) * DayTicks
          /\ last.ret[i]["_day_end"] = <<last.target_date + 1, 0>>
          /\ last.ret[i]["_day_start"] = last.ret[i].start_time

----------------------------------------------------------------------------
(* Settings. *)

DefaultPurgeDays == 7
DefaultGoalHistoryDays == 30

\* d[k] = v on a dict
SetKey(d, k, v) == (k :> v) @@ d

\* d.get(k, v)
Get(d, k, v) == IF k \in DOMAIN d THEN d[k] ELSE v

\* the settings property with the defaults written over the stored values
settings_read_overwrites(st) ==
    ("stats_days" :> DefaultStatsDays)
       @@ ("todo_purge_days" :> DefaultPurgeDays)
       @@ ("goal_history_days" :> DefaultGoalHistoryDays)
       @@ st

\* the settings property: the stored map with the missing defaults filled in
\* (the property writes them into the stored map); settings that are not a
\* dict are replaced by the defaults
settings_read(st) ==
    st @@ ("stats_days" :> DefaultStatsDays)
       @@ ("todo_purge_days" :> DefaultPurgeDays)
       @@ ("goal_history_days" :> DefaultGoalHistoryDays)

\* the empty list [] that _load puts under a key the file lacks; where the
\* settings are a list and not a dict they are this list
EmptyList == <<>>

\* DataManager.update_setting on settings that are a dict
update_setting(st, key, value) == SetKey(st, key, value)

\* DataManager.update_setting; the key "settings" is in self._data after any
\* load.  On settings that are a list, the item assignment raises TypeError
\* before _save is reached
UpdateSetting(key, value) ==
    /\ settings' = IF settings = EmptyList THEN settings
                   ELSE update_setting(settings, key, value)
    /\ disk' = IF settings = EmptyList THEN disk
               ELSE save(todos, goals, timeline, settings')
    /\ last' = [op |-> "update_setting", key |-> key, value |-> value,
                raised |-> settings = EmptyList]
    /\ UNCHANGED <<clock, issued, todos, goals, timeline,
                   journal, moods, notes, uuids>>

----------------------------------------------------------------------------
(* Todos. *)

MaxTodos == 2        \* todos held at once

Priorities == {"low", "medium", "high"}

\* toggle_todo that keeps the old done_at when a todo is marked pending again
toggle_todo_keeps_done_at(td, todo_id, stamp) ==
    LET i == FirstWithId(td, todo_id)
    IN  IF i = 0 THEN td
        ELSE [td EXCEPT ![i] =
                 IF td[i].done THEN SetKey(td[i], "done", FALSE)
                 ELSE SetKey(SetKey(td[i], "done", TRUE), "done_at", stamp)]

\* the loop of DataManager.toggle_todo with _now() read as stamp
toggle_todo(td, todo_id, stamp) ==
    LET i == FirstWithId(td, todo_id)
    IN  IF i = 0 THEN td
        ELSE [td EXCEPT ![i] =
                 SetKey(SetKey(td[i], "done", ~td[i].done),
                        "done_at", IF ~td[i].done THEN stamp ELSE None)]

\* the loop of DataManager.edit_todo
edit_todo(td, todo_id, text) ==
    LET i == FirstWithId(td, todo_id)
    IN  IF i = 0 THEN td ELSE [td EXCEPT ![i] = SetKey(td[i], "text", text)]

\* priorities of DataManager.cycle_priority
priorities == <<"low", "medium", "high">>

\* cycle_priority without the wrap-around: high stays high
cycle_priority_no_wrap(td, todo_id) ==
    LET i == FirstWithId(td, todo_id)
        idx == CHOOSE k \in 1 .. Len(priorities) :
                   priorities[k] = Get(td[i], "priority", "medium")
    IN  IF i = 0 THEN td
        ELSE [td EXCEPT ![i] =
                 SetKey(td[i], "priority",
                        priorities[Min(idx + 1, Len(priorities))])]

\* the loop of DataManager.cycle_priority
cycle_priority(td, todo_id) ==
    LET i == FirstWithId(td, todo_id)
        idx == CHOOSE k \in 1 .. Len(priorities) :
                   priorities[k] = Get(td[i], "priority", "medium")
    IN  IF i = 0 THEN td
        ELSE [td EXCEPT ![i] =
                 SetKey(td[i], "priority",
                        priorities[(idx % Len(priorities)) + 1])]

\* the list comprehension of DataManager.delete_todo
delete_todo(td, todo_id) == SelectSeq(td, LAMBDA t : t.id # todo_id)

\* a < b on two ISO timestamp strings
StrLess(a, b) == a[1] < b[1] \/ (a[1] = b[1] /\ a[2] < b[2])

\* t.get("done_at", t.get("created_at", ""))
done_key(t) == Get(t, "done_at", t.created_at)

\* purge_old_done_todos with <= for < in the comparison with the cutoff
purge_old_done_todos_inclusive(td, purge_days, now) ==
    LET cutoff == isoformat(now - purge_days * DayTicks)
    IN  IF purge_days <= 0 THEN td
        ELSE SelectSeq(td, LAMBDA t : ~(t.done /\ ~StrLess(cutoff, done_key(t))))

\* the todos DataManager.purge_old_done_todos keeps when datetime.now() is now
purge_old_done_todos(td, purge_days, now) ==
    LET cutoff == isoformat(now - purge_days * DayTicks)
    IN  IF purge_days <= 0 THEN td
        ELSE SelectSeq(td, LAMBDA t : ~(t.done /\ StrLess(done_key(t), cutoff)))

AddTodo(text, priority) ==
    /\ Len(todos) < MaxTodos
    /\ issued < MaxIds
    /\ todos' = Append(todos, [id |-> new_id(issued), text |-> text,
                               done |-> FALSE, priority |-> priority,
                               created_at |-> now_str(clock)])
    /\ issued' = issued + 1
    /\ disk' = save(todos', goals, timeline, settings)
    /\ last' = [op |-> "add_todo"]
    /\ UNCHANGED <<clock, goals, timeline, settings, journal, moods, notes,
                   uuids>>

ToggleTodo(todo_id) ==
    /\ todos' = toggle_todo(todos, todo_id, now_str(clock))
    /\ disk' = save(todos', goals, timeline, settings)
    /\ last' = [op |-> "toggle_todo",
                found |-> FirstWithId(todos, todo_id) # 0]
    /\ UNCHANGED <<clock, issued, goals, timeline, settings,
                   journal, moods, notes, uuids>>

EditTodo(todo_id, text) ==
    /\ todos' = edit_todo(todos, todo_id, text)
    /\ disk' = save(todos', goals, timeline, settings)
    /\ last' = [op |-> "edit_todo",
                found |-> FirstWithId(todos, todo_id) # 0]
    /\ UNCHANGED <<clock, issued, goals, timeline, settings,
                   journal, moods, notes, uuids>>

CyclePriority(todo_id) ==
    /\ todos' = cycle_priority(todos, todo_id)
    /\ disk' = save(todos', goals, timeline, settings)
    /\ last' = [op |-> "cycle_priority", todo_id |-> todo_id,
                before |-> todos, found |-> FirstWithId(todos, todo_id) # 0]
    /\ UNCHANGED <<clock, issued, goals, timeline, settings,
                   journal, moods, notes, uuids>>

DeleteTodo(todo_id) ==
    /\ todos' = delete_todo(todos, todo_id)
    /\ disk' = save(todos', goals, timeline, settings)
    /\ last' = [op |-> "delete_todo", id |-> todo_id,
                found |-> FirstWithId(todos, todo_id) # 0]
    /\ UNCHANGED <<clock, issued, goals, timeline, settings,
                   journal, moods, notes, uuids>>

\* DataManager.purge_old_done_todos: reading self.settings fills in the
\* defaults; the file is written only when a todo was removed
PurgeOldDoneTodos ==
    /\ settings' = settings_read(settings)
    /\ todos' = purge_old_done_todos(todos, settings'["todo_purge_days"], clock)
    /\ disk' = IF Len(todos') # Len(todos)
               THEN save(todos', goals, timeline, settings')
               ELSE disk
    /\ last' = [op |-> "purge_old_done_todos",
                purge_days |-> settings'["todo_purge_days"], now |-> clock,
                before |-> todos, ret |-> Len(todos) - Len(todos')]
    /\ UNCHANGED <<clock, issued, goals, timeline, journal, moods, notes,
                   uuids>>

\* a day passes between two calls
NextDay ==
    /\ clock + DayTicks < NumDays * DayTicks
    /\ clock' = clock + DayTicks
    /\ last' = NoCall
    /\ UNCHANGED <<issued, todos, goals, timeline, settings, disk,
                   journal, moods, notes, uuids>>

\* the purge window a user sets (the windows that switch the purge off are
\* those of PurgeWindows)
PurgeDayChoices == {1}

NextTodos ==
    \/ \E text \in {"a"} : \E priority \in Priorities : AddTodo(text, priority)
    \/ \E id \in KnownIds : ToggleTodo(id)
    \/ \E id \in KnownIds : EditTodo(id, "b")
    \/ \E id \in KnownIds : CyclePriority(id)
    \/ \E id \in KnownIds : DeleteTodo(id)
    \/ PurgeOldDoneTodos
    \/ \E p \in PurgeDayChoices : UpdateSetting("todo_purge_days", p)
    \/ NextDay

SpecTodos == Init /\ [][NextTodos]_vars

\* C4: between operations, for every todo, done_at is not None iff done is
\* true (a todo without the key done_at reads None).
C4_DoneAtIffDone ==
    \A i \in 1 .. Len(todos) :
        (Get(todos[i], "done_at", None) # None) <=> todos[i].done

\* a purge removed a done todo and kept one that had been marked done and
\* then pending again (its done_at is None)
C4_Witness ==
    /\ last.op = "purge_old_done_todos"
    /\ last.ret = 1
    /\ \E i \in 1 .. Len(todos) :
          /\ "done_at" \in DOMAIN todos[i]
          /\ todos[i].done_at = None
          /\ ~todos[i].done

----------------------------------------------------------------------------
(* The sorted view of the todos. *)

MaxSortLen == 3      \* todos in a list the view is applied to

\* PRIORITY_ORDER with high and low exchanged
priority_order_reversed(p) ==
    CASE p = "high" -> 2 [] p = "medium" -> 1 [] p = "low" -> 0 [] OTHER -> 1

\* PRIORITY_ORDER.get(p, 1)
priority_order(p) ==
    CASE p = "high" -> 0 [] p = "medium" -> 1 [] p = "low" -> 2 [] OTHER -> 1

\* the key of a pending todo precedes that of another:
\* (PRIORITY_ORDER.get(priority, 1), created_at) as a tuple
pending_key_less(a, b) ==
    LET ra == priority_order(Get(a, "priority", "medium"))
        rb == priority_order(Get(b, "priority", "medium"))
    IN  ra < rb \/ (ra = rb /\ StrLess(a.created_at, b.created_at))

\* the done key compared without reverse=True: oldest completion first
done_key_less_ascending(a, b) == StrLess(done_key(a), done_key(b))

\* the key of a done todo precedes that of another under reverse=True
done_key_less(a, b) == StrLess(done_key(b), done_key(a))

\* the order list.sort applies: by the pending key, by the done key with
\* reverse=True, or the elements' own order when no key is given
key_less(which, a, b) ==
    CASE which = "pending" -> pending_key_less(a, b)
      [] which = "done" -> done_key_less(a, b)
      [] OTHER -> a < b

\* list.sort: seq ordered by less, elements that less does not order keep
\* their order (the sort is stable, also with reverse=True)
sorted_by(seq, which) ==
    LET n == Len(seq)
        less(a, b) == key_less(which, a, b)
        pos(i) == 1 + Cardinality({j \in 1 .. n : less(seq[j], seq[i])})
                    + Cardinality({j \in 1 .. (i - 1) :
                                      /\ ~less(seq[j], seq[i])
                                      /\ ~less(seq[i], seq[j])})
    IN  [k \in 1 .. n |-> seq[CHOOSE i \in 1 .. n : pos(i) = k]]

\* DataManager.get_sorted_todos
get_sorted_todos(td) ==
    LET pending == SelectSeq(td, LAMBDA t : ~t.done)
        done == SelectSeq(td, LAMBDA t : t.done)
    IN  sorted_by(pending, "pending") \o sorted_by(done, "done")

GetSortedTodos ==
    /\ last' = [op |-> "get_sorted_todos", ret |-> get_sorted_todos(todos)]
    /\ UNCHANGED <<clock, issued, todos, goals, timeline, settings, disk,
                   journal, moods, notes, uuids>>

\* the timestamps of the stored todos: either side of a midnight
TodoStamps == {<<0, DayLen - 1>>, <<1, 0>>}

\* a stored todo with the given id: pending (never toggled, or toggled back),
\* or done with a done_at, or done without one (written by an older version)
StoredTodos(id) ==
    [id : {id}, text : {"a"}, done : {FALSE}, priority : Priorities,
     created_at : TodoStamps]
    \cup [id : {id}, text : {"a"}, done : {FALSE}, priority : Priorities,
          created_at : TodoStamps, done_at : {None}]
    \cup [id : {id}, text : {"a"}, done : {TRUE}, priority : Priorities,
          created_at : TodoStamps, done_at : TodoStamps]
    \cup [id : {id}, text : {"a"}, done : {TRUE}, priority : Priorities,
          created_at : TodoStamps]

\* a store that holds up to MaxSortLen todos
InitSort ==
    /\ clock = BootTick + DayTicks
    /\ issued = MaxSortLen
    /\ uuids = FreshIds
    /\ \E n \in 0 .. MaxSortLen :
          \E td \in [1 .. n -> StoredTodos(0)] :
             todos = [i \in 1 .. n |-> [td[i] EXCEPT !.id = i]]
    /\ journal = <<>>
    /\ moods = <<>>
    /\ goals = <<>>
    /\ notes = <<>>
    /\ timeline = <<>>
    /\ settings = DEFAULT_SETTINGS
    /\ disk = save(todos, goals, timeline, settings)
    /\ last = NoCall

NextSort == GetSortedTodos

SpecSort == InitSort /\ [][NextSort]_vars

\* C5: get_sorted_todos() places every pending todo before every done todo,
\* and among the pending ones no high-priority todo comes after a medium- or
\* low-priority one and no medium-priority todo after a low-priority one.
C5_PendingFirstByPriority ==
    last.op = "get_sorted_todos" =>
        /\ Len(last.ret) = Len(todos)
        /\ \A i \in 1 .. Len(last.ret) : \A j \in (i + 1) .. Len(last.ret) :
              LET a == last.ret[i]
                  b == last.ret[j]
              IN  /\ ~(a.done /\ ~b.done)
                  /\ (~a.done /\ ~b.done) =>
                        /\ ~(b.priority = "high"
                             /\ a.priority \in {"medium", "low"})
                        /\ ~(b.priority = "medium" /\ a.priority = "low")

\* the view reordered a list stored as done, low, high into high, low, done
C5_Witness ==
    /\ last.op = "get_sorted_todos"
    /\ Len(todos) = 3
    /\ todos[1].done
    /\ ~todos[2].done /\ todos[2].priority = "low"
    /\ ~todos[3].done /\ todos[3].priority = "high"
    /\ last.ret[1].id = 3 /\ last.ret[2].id = 2 /\ last.ret[3].id = 1

----------------------------------------------------------------------------
(* Goals. *)

MaxGoals == 2        \* goals held at once
MaxHistoryDays == 3  \* the largest days argument of get_goal_history

\* list.remove(x): seq without its first x
remove(seq, x) ==
    LET i == CHOOSE k \in 1 .. Len(seq) :
                 seq[k] = x /\ \A j \in 1 .. (k - 1) : seq[j] # x
    IN  SubSeq(seq, 1, i - 1) \o SubSeq(seq, i + 1, Len(seq))

\* x in seq
In(x, seq) == \E k \in 1 .. Len(seq) : seq[k] = x

\* the check-in branch without the sort
toggle_check_in_unsorted(check_ins, day) ==
    IF In(day, check_ins) THEN remove(check_ins, day)
    ELSE Append(check_ins, day)

\* the check-out branch without the remove
toggle_check_in_never_removes(check_ins, day) ==
    IF In(day, check_ins) THEN check_ins
    ELSE sorted_by(Append(check_ins, day), "plain")

\* the check_ins list check_in_goal leaves on the goal it found: the day is
\* removed when present, else appended and the list sorted
toggle_check_in(check_ins, day) ==
    IF In(day, check_ins) THEN remove(check_ins, day)
    ELSE sorted_by(Append(check_ins, day), "plain")

\* the goals DataManager.check_in_goal leaves
check_in_goal(gl, goal_id, day) ==
    LET i == FirstWithId(gl, goal_id)
    IN  IF i = 0 THEN gl
        ELSE [gl EXCEPT ![i] =
                 SetKey(gl[i], "check_ins",
                        toggle_check_in(Get(gl[i], "check_ins", <<>>), day))]

\* what DataManager.check_in_goal returns
check_in_goal_returns(gl, goal_id, day) ==
    LET i == FirstWithId(gl, goal_id)
    IN  IF i = 0 THEN FALSE
        ELSE ~In(day, Get(gl[i], "check_ins", <<>>))

AddGoal(title, description) ==
    /\ Len(goals) < MaxGoals
    /\ issued < MaxIds
    /\ goals' = Append(goals, [id |-> new_id(issued), title |-> title,
                               description |-> description,
                               check_ins |-> <<>>,
                               created_at |-> now_str(clock)])
    /\ issued' = issued + 1
    /\ disk' = save(todos, goals', timeline, settings)
    /\ last' = [op |-> "add_goal"]
    /\ UNCHANGED <<clock, todos, timeline, settings, journal, moods, notes,
                   uuids>>

\* DataManager.check_in_goal; day None stands for the argument left out.  The
\* file is written only when the goal was found.  The call record keeps, for
\* a call that repeats the one before it, what that one returned and found.
CheckInGoal(goal_id, day_arg) ==
    LET day == IF day_arg # None THEN day_arg[1] ELSE today_str(clock)
        i == FirstWithId(goals, goal_id)
        before == IF i = 0 THEN <<>> ELSE Get(goals[i], "check_ins", <<>>)
        again == /\ last.op = "check_in_goal"
                 /\ last.goal_id = goal_id
                 /\ last.day = day
    IN  /\ goals' = check_in_goal(goals, goal_id, day)
        /\ disk' = IF i # 0 THEN save(todos, goals', timeline, settings)
                   ELSE disk
        /\ last' = [op |-> "check_in_goal", goal_id |-> goal_id, day |-> day,
                    found |-> (i # 0), before |-> before,
                    ret |-> check_in_goal_returns(goals, goal_id, day),
                    again |-> again,
                    first_ret |-> IF again THEN last.ret ELSE FALSE,
                    first_before |-> IF again THEN last.before ELSE <<>>]
        /\ UNCHANGED <<clock, issued, todos, timeline, settings,
                       journal, moods, notes, uuids>>

\* the days a caller passes to check_in_goal, each as <<day>>, or None
DayArgs == {<<d>> : d \in Days} \cup {None}

----------------------------------------------------------------------------
(* Goal views. *)

\* the while loop of get_goal_streak: the days counted back from d
RECURSIVE streak_loop(_, _)
streak_loop(check_ins, d) ==
    IF d \in check_ins THEN 1 + streak_loop(check_ins, d - 1) ELSE 0

\* get_goal_streak that looks at today only
get_goal_streak_today_only(goal, today) ==
    LET check_ins == {goal.check_ins[k] : k \in 1 .. Len(goal.check_ins)}
    IN  IF today \notin check_ins THEN 0 ELSE streak_loop(check_ins, today)

\* DataManager.get_goal_streak when date.today() is today
get_goal_streak(goal, today) ==
    LET ci == Get(goal, "check_ins", <<>>)
        check_ins == {ci[k] : k \in 1 .. Len(ci)}
    IN  IF check_ins = {} THEN 0
        ELSE IF today \in check_ins THEN streak_loop(check_ins, today)
        ELSE IF (today - 1) \in check_ins
             THEN streak_loop(check_ins, today - 1)
        ELSE 0

\* the for loop of get_goal_history from i on
RECURSIVE history_loop(_, _, _, _, _)
history_loop(check_ins, created_date, today, days, i) ==
    IF i >= days THEN <<>>
    ELSE LET d == today - i
         IN  IF d < created_date THEN <<>>
             ELSE <<<<d, d \in check_ins>>>>
                  \o history_loop(check_ins, created_date, today, days, i + 1)

\* get_goal_history that stops one day late
get_goal_history_late(goal, days, today) ==
    LET check_ins == {goal.check_ins[k] : k \in 1 .. Len(goal.check_ins)}
    IN  history_loop(check_ins, goal.created_at[1] - 1, today, days, 0)

\* DataManager.get_goal_history when date.today() is today; created_at[:10]
\* is the day of the timestamp
get_goal_history(goal, days, today) ==
    LET ci == Get(goal, "check_ins", <<>>)
        check_ins == {ci[k] : k \in 1 .. Len(ci)}
        created_date == goal.created_at[1]
    IN  history_loop(check_ins, created_date, today, days, 0)

GetGoalStreak(i) ==
    /\ i \in 1 .. Len(goals)
    /\ last' = [op |-> "get_goal_streak", goal |-> goals[i],
                today |-> today_str(clock),
                ret |-> get_goal_streak(goals[i], today_str(clock))]
    /\ UNCHANGED <<clock, issued, todos, goals, timeline, settings, disk,
                   journal, moods, notes, uuids>>

GetGoalHistory(i, days) ==
    /\ i \in 1 .. Len(goals)
    /\ last' = [op |-> "get_goal_history", goal |-> goals[i], days |-> days,
                today |-> today_str(clock),
                ret |-> get_goal_history(goals[i], days, today_str(clock))]
    /\ UNCHANGED <<clock, issued, todos, goals, timeline, settings, disk,
                   journal, moods, notes, uuids>>

NextGoals ==
    \/ AddGoal("run", "")
    \/ \E id \in KnownIds : \E day \in DayArgs : CheckInGoal(id, day)
    \/ \E i \in 1 .. MaxGoals : GetGoalStreak(i)
    \/ \E i \in 1 .. MaxGoals : \E days \in 0 .. MaxHistoryDays :
          GetGoalHistory(i, days)
    \/ NextDay

SpecGoals == Init /\ [][NextGoals]_vars

\* the elements of a list
Elems(seq) == {seq[k] : k \in 1 .. Len(seq)}

\* C6: get_goal_streak(goal) returns 0 when neither today nor yesterday is in
\* check_ins; otherwise it returns the length of the maximal run of
\* consecutive checked-in days that ends at today if today is checked in,
\* else at yesterday.
C6_StreakIsRunLength ==
    last.op = "get_goal_streak" =>
        LET S == Elems(last.goal.check_ins)
            t == last.today
            anchor == IF t \in S THEN t ELSE t - 1
            k == last.ret
        IN  IF t \notin S /\ (t - 1) \notin S
            THEN k = 0
            ELSE /\ k >= 1
                 /\ \A j \in 0 .. (k - 1) : (anchor - j) \in S
                 /\ (anchor - k) \notin S

\* today is not checked in, the two days before it are: the streak is 2
C6_Witness ==
    /\ last.op = "get_goal_streak"
    /\ last.today = 2
    /\ last.goal.check_ins = <<0, 1>>
    /\ last.ret = 2

\* C7: for a goal created N >= 0 days ago, get_goal_history(goal, days)
\* returns exactly min(days, N+1) entries, for the days today, today-1, ...
\* in this order, none before the creation date, each with the flag that
\* tells whether the day is in check_ins.
C7_HistoryWindow ==
    last.op = "get_goal_history" =>
        LET S == Elems(last.goal.check_ins)
            t == last.today
            created == last.goal.created_at[1]
            N == t - created
        IN  N >= 0 =>
               /\ Len(last.ret) = Min(last.days, N + 1)
               /\ \A i \in 1 .. Len(last.ret) :
                     /\ last.ret[i][1] = t - (i - 1)
                     /\ last.ret[i][1] >= created
                     /\ last.ret[i][2] = ((t - (i - 1)) \in S)

\* a goal created yesterday, checked in yesterday only, asked for 3 days:
\* two entries, today unchecked and yesterday checked
C7_Witness ==
    /\ last.op = "get_goal_history"
    /\ last.days = 3
    /\ last.today - last.goal.created_at[1] = 1
    /\ last.ret = <<<<last.today, FALSE>>, <<last.today - 1, TRUE>>>>

\* C8: after any sequence of check_in_goal calls on goals created by
\* add_goal, every goal's check_ins holds no day twice and is sorted
\* ascending.
C8_CheckInsSortedUnique ==
    \A g \in 1 .. Len(goals) :
        \A i \in 1 .. Len(goals[g].check_ins) :
            \A j \in (i + 1) .. Len(goals[g].check_ins) :
                goals[g].check_ins[i] < goals[g].check_ins[j]

\* a day earlier than those already checked in was checked in last
C8_Witness ==
    /\ last.op = "check_in_goal"
    /\ last.found /\ last.ret
    /\ Len(last.before) = 2
    /\ last.day < last.before[1]
    /\ \E g \in 1 .. Len(goals) :
          goals[g].id = last.goal_id /\ Len(goals[g].check_ins) = 3

\* C9: for an existing goal and any day, two consecutive check_in_goal calls
\* with that day return opposite booleans (True then False when the day was
\* absent) and leave check_ins as it was before the first call.
C9_CheckInTwiceRestores ==
    (last.op = "check_in_goal" /\ last.again /\ last.found) =>
        /\ last.ret # last.first_ret
        /\ ~In(last.day, last.first_before)
              => (last.first_ret = TRUE /\ last.ret = FALSE)
        /\ \A g \in 1 .. Len(goals) :
              goals[g].id = last.goal_id
                 => goals[g].check_ins = last.first_before

\* a day between two checked-in days was checked in and out again
C9_Witness ==
    /\ last.op = "check_in_goal"
    /\ last.again /\ last.found
    /\ last.first_before = <<0, 2>>
    /\ last.day = 1
    /\ last.first_ret = TRUE /\ last.ret = FALSE

----------------------------------------------------------------------------
(* The day view of events that start_event created. *)

\* a run in which events are started and ended while ticks and days pass, and
\* the day view is read; no start_time is edited
NextStartView ==
    \/ \E name \in EventNames : StartEvent(name)
    \/ \E id \in KnownIds : EndEvent(id)
    \/ \E target_date \in Days : GetEventsForDate(target_date)
    \/ Tick
    \/ NextDay

SpecStartView == Init /\ [][NextStartView]_vars

\* C11: for every entry returned by get_events_for_date(D), _is_spillover
\* equals (event.date != D); it is false on the day on which the event starts
\* (the day of its start_time) and true on every later day the event appears
\* on.
C11_SpilloverByDay ==
    last.op = "get_events_for_date" =>
        \A i \in 1 .. Len(last.ret) :
            LET en == last.ret[i]
                D == last.target_date
            IN  /\ en["_is_spillover"] = (en.date # D)
                /\ en.start_time[1] = D => ~en["_is_spillover"]
                /\ en.start_time[1] < D => en["_is_spillover"]

\* the first half of C11 alone: _is_spillover equals (event.date != D)
SpilloverIsDateDiffers ==
    last.op = "get_events_for_date" =>
        \A i \in 1 .. Len(last.ret) :
            last.ret[i]["_is_spillover"] = (last.ret[i].date # last.target_date)

----------------------------------------------------------------------------
(* The purge of old done todos, applied to stored lists. *)

MaxPurgeLen == 2     \* todos in a list the purge is applied to

\* the purge windows found in the settings: negative, zero, one and two days
PurgeWindows == {-1, 0, 1, 2}

\* a store that holds up to MaxPurgeLen todos and a purge window (or none, so
\* that the default applies), at any time of the bounded days
InitPurge ==
    /\ clock \in 0 .. (NumDays * DayTicks - 1)
    /\ issued = MaxPurgeLen
    /\ uuids = FreshIds
    /\ \E n \in 0 .. MaxPurgeLen :
          \E td \in [1 .. n -> {t \in StoredTodos(0) : t.priority = "medium"}] :
             todos = [i \in 1 .. n |-> [td[i] EXCEPT !.id = i]]
    /\ journal = <<>>
    /\ moods = <<>>
    /\ goals = <<>>
    /\ notes = <<>>
    /\ timeline = <<>>
    /\ settings \in {DEFAULT_SETTINGS}
                    \cup {SetKey(DEFAULT_SETTINGS, "todo_purge_days", p) :
                             p \in PurgeWindows}
    /\ disk = save(todos, goals, timeline, settings)
    /\ last = NoCall

NextPurge == PurgeOldDoneTodos

SpecPurge == InitPurge /\ [][NextPurge]_vars

\* the point in time a todo counts from: its done_at, or created_at when the
\* todo has no done_at
PurgeAge(t) ==
    fromisoformat(IF "done_at" \in DOMAIN t THEN t.done_at ELSE t.created_at)

\* C12 as stated: with todo_purge_days = p > 0 the purge removes exactly the
\* done todos whose done_at (created_at when missing) is older than
\* now - p days, and returns their number; with p <= 0 it removes nothing and
\* returns 0.
C12_PurgeWindowExact ==
    last.op = "purge_old_done_todos" =>
        LET p == last.purge_days
            before == last.before
            cutoff == last.now - p * DayTicks
            old(t) == t.done /\ PurgeAge(t) < cutoff
        IN  IF p > 0
            THEN /\ todos = SelectSeq(before, LAMBDA t : ~old(t))
                 /\ last.ret
                    = Cardinality({i \in 1 .. Len(before) : old(before[i])})
            ELSE todos = before /\ last.ret = 0

\* C12, amended: with todo_purge_days = p > 0 the purge removes exactly the
\* done todos whose done_at (created_at when missing) is older than
\* now - p days cut to a whole second, keeps every pending todo and every
\* other done todo in their order, and returns the number removed; with
\* p <= 0 it removes nothing and returns 0.
C12_PurgeWindowToSeconds ==
    last.op = "purge_old_done_todos" =>
        LET p == last.purge_days
            before == last.before
            exact == last.now - p * DayTicks
            cutoff == exact - (exact % SubSec)
            old(t) == t.done /\ PurgeAge(t) < cutoff
        IN  IF p > 0
            THEN /\ todos = SelectSeq(before, LAMBDA t : ~old(t))
                 /\ \A i \in 1 .. Len(before) :
                       ~before[i].done =>
                          \E j \in 1 .. Len(todos) : todos[j] = before[i]
                 /\ last.ret
                    = Cardinality({i \in 1 .. Len(before) : old(before[i])})
                 /\ last.ret = Len(before) - Len(todos)
            ELSE todos = before /\ last.ret = 0

\* a purge with a window of one day, run a fraction of a second past the
\* whole second, removed a done todo and kept one that was done exactly one
\* day and that fraction before
C12_Witness ==
    /\ last.op = "purge_old_done_todos"
    /\ last.purge_days = 1
    /\ last.now % SubSec # 0
    /\ last.ret = 1
    /\ Len(todos) = 1
    /\ todos[1].done
    /\ PurgeAge(todos[1]) = (last.now - DayTicks) - (last.now % SubSec)

----------------------------------------------------------------------------
(* Todo operations, checked on the calls of SpecTodos. *)

\* the priority one position after p in [low, medium, high], cyclically
NextPriority(p) ==
    CASE p = "low" -> "medium" [] p = "medium" -> "high" [] p = "high" -> "low"

\* C13: cycle_priority on an existing todo moves its priority one position
\* on in [low, medium, high], cyclically (low->medium, medium->high,
\* high->low), and changes nothing else; two more applications give the
\* todo its original priority back.
C13_CyclePriorityCycles ==
    last.op = "cycle_priority" =>
        LET i == FirstWithId(last.before, last.todo_id)
            twice == cycle_priority(cycle_priority(todos, last.todo_id),
                                    last.todo_id)
        IN  i # 0 =>
               /\ Len(todos) = Len(last.before)
               /\ todos[i].priority = NextPriority(last.before[i].priority)
               /\ todos[i] = [last.before[i] EXCEPT
                                 !.priority = todos[i].priority]
               /\ \A j \in 1 .. Len(todos) : j # i => todos[j] = last.before[j]
               /\ twice = last.before

\* cycle_priority was called on the second of two todos, whose priority was
\* high and is now low
C13_Witness ==
    /\ last.op = "cycle_priority"
    /\ Len(todos) = 2
    /\ FirstWithId(last.before, last.todo_id) = 2
    /\ last.before[2].priority = "high"
    /\ todos[2].priority = "low"

----------------------------------------------------------------------------
(* Journal, moods, notes, and the goal operations that edit and delete. *)

MaxEntries == 2      \* journal entries, moods or notes held at once

\* a delete that drops the last record when no record has the id
without_id_or_last(seq, id) ==
    IF \A i \in 1 .. Len(seq) : seq[i].id # id
    THEN SubSeq(seq, 1, Len(seq) - 1)
    ELSE SelectSeq(seq, LAMBDA r : r.id # id)

\* the list comprehension of the delete operations: the records without the id
without_id(seq, id) == SelectSeq(seq, LAMBDA r : r.id # id)

\* the loop of DataManager.edit_journal_entry
edit_journal_entry(jr, entry_id, content) ==
    LET i == FirstWithId(jr, entry_id)
    IN  IF i = 0 THEN jr ELSE [jr EXCEPT ![i] = SetKey(jr[i], "content", content)]

\* the loop of DataManager.edit_goal; an argument is None or <<string>>, and
\* one that is None is left out
edit_goal(gl, goal_id, title, description) ==
    LET i == FirstWithId(gl, goal_id)
        t == IF title # None THEN title[1] ELSE gl[i].title
        d == IF description # None THEN description[1] ELSE gl[i].description
    IN  IF i = 0 THEN gl
        ELSE [gl EXCEPT ![i] = SetKey(SetKey(gl[i], "title", t),
                                      "description", d)]

\* DataManager.add_journal_entry: _today() is read before _now()
AddJournalEntry(content) ==
    /\ Len(journal) < MaxEntries
    /\ issued < MaxIds
    /\ \E c1 \in LaterReads(clock) : \E c2 \in LaterReads(clock) :
          /\ c1 <= c2
          /\ journal' = Append(journal, [id |-> new_id(issued),
                                         content |-> content,
                                         date |-> today_str(c1),
                                         created_at |-> now_str(c2)])
          /\ clock' = c2
    /\ issued' = issued + 1
    /\ disk' = save_all(todos, journal', moods, goals, notes, timeline,
                        settings)
    /\ last' = [op |-> "add_journal_entry"]
    /\ UNCHANGED <<uuids, todos, moods, goals, notes, timeline, settings>>

EditJournalEntry(entry_id, content) ==
    /\ journal' = edit_journal_entry(journal, entry_id, content)
    /\ disk' = save_all(todos, journal', moods, goals, notes, timeline,
                        settings)
    /\ last' = [op |-> "edit_journal_entry",
                found |-> FirstWithId(journal, entry_id) # 0]
    /\ UNCHANGED <<clock, issued, uuids, todos, moods, goals, notes, timeline,
                   settings>>

DeleteJournalEntry(entry_id) ==
    /\ journal' = without_id(journal, entry_id)
    /\ disk' = save_all(todos, journal', moods, goals, notes, timeline,
                        settings)
    /\ last' = [op |-> "delete_journal_entry", id |-> entry_id,
                found |-> FirstWithId(journal, entry_id) # 0]
    /\ UNCHANGED <<clock, issued, uuids, todos, moods, goals, notes, timeline,
                   settings>>

\* DataManager.add_mood: _today() is read before _now()
AddMood(mood, note) ==
    /\ Len(moods) < MaxEntries
    /\ issued < MaxIds
    /\ \E c1 \in LaterReads(clock) : \E c2 \in LaterReads(clock) :
          /\ c1 <= c2
          /\ moods' = Append(moods, [id |-> new_id(issued), mood |-> mood,
                                     note |-> note, date |-> today_str(c1),
                                     created_at |-> now_str(c2)])
          /\ clock' = c2
    /\ issued' = issued + 1
    /\ disk' = save_all(todos, journal, moods', goals, notes, timeline,
                        settings)
    /\ last' = [op |-> "add_mood"]
    /\ UNCHANGED <<uuids, todos, journal, goals, notes, timeline, settings>>

DeleteMood(mood_id) ==
    /\ moods' = without_id(moods, mood_id)
    /\ disk' = save_all(todos, journal, moods', goals, notes, timeline,
                        settings)
    /\ last' = [op |-> "delete_mood", id |-> mood_id,
                found |-> FirstWithId(moods, mood_id) # 0]
    /\ UNCHANGED <<clock, issued, uuids, todos, journal, goals, notes,
                   timeline, settings>>

AddNote(title, content) ==
    /\ Len(notes) < MaxEntries
    /\ issued < MaxIds
    /\ notes' = Append(notes, [id |-> new_id(issued), title |-> title,
                               content |-> content,
                               created_at |-> now_str(clock)])
    /\ issued' = issued + 1
    /\ disk' = save_all(todos, journal, moods, goals, notes', timeline,
                        settings)
    /\ last' = [op |-> "add_note"]
    /\ UNCHANGED <<clock, uuids, todos, journal, moods, goals, timeline,
                   settings>>

DeleteNote(note_id) ==
    /\ notes' = without_id(notes, note_id)
    /\ disk' = save_all(todos, journal, moods, goals, notes', timeline,
                        settings)
    /\ last' = [op |-> "delete_note",
                found |-> FirstWithId(notes, note_id) # 0]
    /\ UNCHANGED <<clock, issued, uuids, todos, journal, moods, goals,
                   timeline, settings>>

EditGoal(goal_id, title, description) ==
    /\ goals' = edit_goal(goals, goal_id, title, description)
    /\ disk' = save(todos, goals', timeline, settings)
    /\ last' = [op |-> "edit_goal", found |-> FirstWithId(goals, goal_id) # 0]
    /\ UNCHANGED <<clock, issued, uuids, todos, journal, moods, notes,
                   timeline, settings>>

DeleteGoal(goal_id) ==
    /\ goals' = without_id(goals, goal_id)
    /\ disk' = save(todos, goals', timeline, settings)
    /\ last' = [op |-> "delete_goal", id |-> goal_id,
                found |-> FirstWithId(goals, goal_id) # 0]
    /\ UNCHANGED <<clock, issued, uuids, todos, journal, moods, notes,
                   timeline, settings>>

----------------------------------------------------------------------------
(* Loading the data file. *)

\* the keys of DEFAULT_DATA
DefaultKeys ==
    {"todos", "journal", "moods", "habits", "goals", "notes", "timeline",
     "settings"}

\* json.loads(json.dumps(DEFAULT_DATA)): a new copy of the default document
DEFAULT_DATA == document(<<>>, <<>>, <<>>, <<>>, <<>>, <<>>, DEFAULT_SETTINGS)

\* "for key in DEFAULT_DATA: if key not in data: data[key] = []"
backfill(data) ==
    [k \in (DOMAIN data) \cup DefaultKeys |->
        IF k \in DOMAIN data THEN data[k] ELSE EmptyList]

\* DataManager._load on the given file: whether it raises, and the document
\* it returns.  JSONDecodeError and IOError are caught; UnicodeDecodeError
\* and the TypeError of the key loop on a value that is not a dict are not
load(file) ==
    CASE file.kind = "json_object" ->
            [raised |-> FALSE, data |-> backfill(file.data)]
      [] file.kind \in {"absent", "unreadable", "not_json"} ->
            [raised |-> FALSE, data |-> DEFAULT_DATA]
      [] OTHER -> [raised |-> TRUE]

\* the in-memory document self._data
memory == document(todos, journal, moods, goals, notes, timeline, settings)

\* DataManager(): a new store is made from the file and takes the place of
\* the one in use; when _load raises there is no new store
Restart ==
    LET r == load(disk)
    IN  /\ IF r.raised
           THEN UNCHANGED <<todos, journal, moods, goals, notes, timeline,
                            settings>>
           ELSE /\ todos' = r.data.todos
                /\ journal' = r.data.journal
                /\ moods' = r.data.moods
                /\ goals' = r.data.goals
                /\ notes' = r.data.notes
                /\ timeline' = r.data.timeline
                /\ settings' = r.data.settings
        /\ last' = [op |-> "load", raised |-> r.raised, file |-> disk.kind]
        /\ UNCHANGED <<clock, issued, uuids, disk>>

----------------------------------------------------------------------------
(* The store as a whole: every operation that writes, the reads that fill  *)
(* in default settings, and the reload of the file.                        *)

MaxStoreIds == 2     \* records created in one run of the whole store

\* the ids a caller passes in that run: the ids of the run's own records,
\* and one that was not handed out
StoreIds == (MaxIds - MaxStoreIds + 1) .. (issued + 1)

NextStore ==
    \/ AddTodo("a", "medium")
    \/ \E id \in StoreIds : ToggleTodo(id)
    \/ \E id \in StoreIds : EditTodo(id, "b")
    \/ \E id \in StoreIds : CyclePriority(id)
    \/ \E id \in StoreIds : DeleteTodo(id)
    \/ AddJournalEntry("x")
    \/ \E id \in StoreIds : EditJournalEntry(id, "y")
    \/ \E id \in StoreIds : DeleteJournalEntry(id)
    \/ AddMood("good", "")
    \/ \E id \in StoreIds : DeleteMood(id)
    \/ AddGoal("run", "")
    \/ \E id \in StoreIds : EditGoal(id, <<"walk">>, None)
    \/ \E id \in StoreIds : DeleteGoal(id)
    \/ \E id \in StoreIds : CheckInGoal(id, None)
    \/ AddNote("n", "")
    \/ \E id \in StoreIds : DeleteNote(id)
    \/ StartEvent("work")
    \/ \E id \in StoreIds : EndEvent(id)
    \/ \E id \in StoreIds : EditEventTime(id, <<0, 0>>, None)
    \/ \E id \in StoreIds : DeleteEvent(id)
    \/ UpdateSetting("stats_days", 3)
    \/ PurgeOldDoneTodos
    \/ Restart


\* the state after DataManager() on a machine without a data file, with
\* MaxStoreIds calls of uuid4 to come
InitStore ==
    /\ clock = BootTick
    /\ issued = MaxIds - MaxStoreIds
    /\ uuids = FreshIds
    /\ todos = <<>>
    /\ journal = <<>>
    /\ moods = <<>>
    /\ goals = <<>>
    /\ notes = <<>>
    /\ timeline = <<>>
    /\ settings = DEFAULT_SETTINGS
    /\ disk = NoFile
    /\ last = NoCall

SpecStore == InitStore /\ [][NextStore]_vars

\* the operations that change the document
MutatingOps ==
    {"add_todo", "toggle_todo", "edit_todo", "cycle_priority", "delete_todo",
     "add_journal_entry", "edit_journal_entry", "delete_journal_entry",
     "add_mood", "delete_mood", "add_goal", "edit_goal", "delete_goal",
     "check_in_goal", "add_note", "delete_note", "start_event", "end_event",
     "edit_event_time", "delete_event", "update_setting"}

\* a fresh DataManager made from the file holds the in-memory document
FileHoldsMemory ==
    LET r == load(disk) IN ~r.raised /\ r.data = memory

----------------------------------------------------------------------------
(* Starting from a data file the store did not write itself: any kind of   *)
(* file, and any JSON object that holds some of the keys of an older       *)
(* document.                                                               *)

\* a document written earlier: one pending todo and a changed setting
OldDocument ==
    document(<<[id |-> 1, text |-> "a", done |-> FALSE, priority |-> "medium",
                created_at |-> <<0, 0>>]>>,
             <<>>, <<>>, <<>>, <<>>, <<>>, [stats_days |-> 3])

Restrict(f, K) == [k \in K |-> f[k]]

\* the files DataManager() may find
LoadFiles ==
    {[kind |-> k] : k \in FileKinds \ {"json_object"}}
    \cup {json_dump(Restrict(OldDocument, K)) : K \in SUBSET DefaultKeys}

\* DataManager() returned a store: _load did not raise
Loaded == ~load(disk).raised

\* the state after DataManager() on a machine with one of LoadFiles; when
\* _load raised there is no store and no operation is ever called
InitLoad ==
    /\ clock = BootTick
    /\ issued = 1
    /\ uuids = FreshIds
    /\ disk \in LoadFiles
    /\ LET r == load(disk)
           d == IF r.raised THEN DEFAULT_DATA ELSE r.data
       IN  /\ todos = d.todos
           /\ journal = d.journal
           /\ moods = d.moods
           /\ goals = d.goals
           /\ notes = d.notes
           /\ timeline = d.timeline
           /\ settings = d.settings
           /\ last = [op |-> "load", raised |-> r.raised, file |-> disk.kind]

NextLoad ==
    \/ Loaded /\ UpdateSetting("stats_days", 5)
    \/ Loaded /\ PurgeOldDoneTodos
    \/ Loaded /\ AddNote("n", "")
    \/ Loaded /\ \E id \in KnownIds : ToggleTodo(id)
    \/ Loaded /\ \E id \in KnownIds : DeleteNote(id)
    \/ Restart

SpecLoad == InitLoad /\ [][NextLoad]_vars

\* C15: loading never raises to the caller; when the data file is absent,
\* unreadable, corrupt or not a valid document, _load returns the default
\* document (empty collections, default settings).
C15_LoadNeverRaises ==
    last.op = "load" =>
        /\ ~last.raised
        /\ last.file # "json_object" => memory = DEFAULT_DATA

\* the part of C15 the code keeps: a file that is absent, that cannot be
\* opened or read, or that json.load rejects gives the default document
LoadDefaultsWhenCaught ==
    (last.op = "load" /\ last.file \in {"absent", "unreadable", "not_json"})
    => (~last.raised /\ memory = DEFAULT_DATA)

\* C16: after the load of a parseable document that lacks some top-level
\* keys every key is present, a missing one as an empty container of the
\* kind its operations expect (a dict for the settings), the content of the
\* keys that were present is unchanged, and every later operation,
\* update_setting included, works.
C16_BackfillUsable ==
    /\ (last.op = "load" /\ last.file = "json_object") =>
           /\ ~last.raised
           /\ \A k \in DOMAIN disk.data : memory[k] = disk.data[k]
           /\ settings # EmptyList
    /\ last.op = "update_setting" => ~last.raised

\* the part of C16 the code keeps: the keys that were present are unchanged
\* and every missing one is the empty list
BackfillKeepsPresent ==
    (last.op = "load" /\ last.file = "json_object") =>
        /\ ~last.raised
        /\ \A k \in DefaultKeys :
              memory[k] = IF k \in DOMAIN disk.data THEN disk.data[k]
                          ELSE EmptyList

----------------------------------------------------------------------------
(* Reading the settings. *)

DefaultStatsBarMode == 3

RecognizedKeys ==
    {"stats_days", "todo_purge_days", "goal_history_days", "stats_bar_mode"}

\* the keys the settings property fills in
FilledKeys == {"stats_days", "todo_purge_days", "goal_history_days"}

DefaultOf(k) ==
    CASE k = "stats_days" -> DefaultStatsDays
      [] k = "todo_purge_days" -> DefaultPurgeDays
      [] k = "goal_history_days" -> DefaultGoalHistoryDays
      [] k = "stats_bar_mode" -> DefaultStatsBarMode

\* settings.get("stats_bar_mode", 3) of the app and of the stats panel, on
\* the map the settings property returned
stats_bar_mode(st) == Get(st, "stats_bar_mode", DefaultStatsBarMode)

\* a read of DataManager.settings, followed by the caller's lookup of
\* stats_bar_mode
ReadSettings ==
    /\ settings' = settings_read(settings)
    /\ last' = [op |-> "settings", before |-> settings, ret |-> settings',
                bar_mode |-> stats_bar_mode(settings')]
    /\ UNCHANGED <<clock, issued, uuids, todos, journal, moods, goals, notes,
                   timeline, disk>>

\* LazyToolApp.action_toggle_stats_denom with the stats panel active
ToggleStatsDenom ==
    LET st == settings_read(settings)
        current == stats_bar_mode(st)
    IN  /\ settings' = update_setting(st, "stats_bar_mode", (current + 1) % 4)
        /\ disk' = save(todos, goals, timeline, settings')
        /\ last' = [op |-> "toggle_stats_denom", current |-> current]
        /\ UNCHANGED <<clock, issued, uuids, todos, journal, moods, goals,
                       notes, timeline>>

\* the values the app stores under a key other than stats_bar_mode
SettingValues == {1, 2}

\* a store whose file held any part of a settings map, or no settings
InitSettings ==
    /\ clock = BootTick
    /\ issued = 0
    /\ uuids = FreshIds
    /\ todos = <<>>
    /\ journal = <<>>
    /\ moods = <<>>
    /\ goals = <<>>
    /\ notes = <<>>
    /\ timeline = <<>>
    /\ \E K \in SUBSET FilledKeys :
          \/ settings = EmptyList
          \/ settings \in [K -> SettingValues] /\ K # {}
    /\ disk = save_all(<<>>, <<>>, <<>>, <<>>, <<>>, <<>>, settings)
    /\ last = NoCall

NextSettings ==
    \/ ReadSettings
    \/ ToggleStatsDenom
    \/ \E k \in FilledKeys : \E v \in SettingValues :
          settings # EmptyList /\ UpdateSetting(k, v)
    \/ Restart

SpecSettings == InitSettings /\ [][NextSettings]_vars

\* C17 as stated: reading settings yields a map in which every recognized
\* key has a value, the stored one or else the default (7, 7, 30, and 3 for
\* stats_bar_mode).
C17_ReadFillsEveryKey ==
    last.op = "settings" =>
        \A k \in RecognizedKeys :
            /\ k \in DOMAIN last.ret
            /\ last.ret[k] = Get(last.before, k, DefaultOf(k))

\* C17, amended: reading settings yields a map that holds stats_days,
\* todo_purge_days and goal_history_days, each with its stored value or else
\* its default (7, 7, 30), and every other stored key unchanged;
\* stats_bar_mode is not filled in: it is in the map only when stored, and
\* its readers take 3 when it is missing.
C17_ReadFillsDataKeys ==
    last.op = "settings" =>
        /\ DOMAIN last.ret = FilledKeys \cup DOMAIN last.before
        /\ \A k \in DOMAIN last.ret :
              last.ret[k] = Get(last.before, k, DefaultOf(k))
        /\ last.bar_mode = Get(last.before, "stats_bar_mode",
                               DefaultStatsBarMode)

\* settings holding a changed stats_days and no todo_purge_days were read
C17_Witness ==
    /\ last.op = "settings"
    /\ "stats_days" \in DOMAIN last.before
    /\ last.before["stats_days"] # DefaultStatsDays
    /\ "todo_purge_days" \notin DOMAIN last.before
    /\ last.ret["stats_days"] = last.before["stats_days"]
    /\ last.ret["todo_purge_days"] = DefaultPurgeDays

----------------------------------------------------------------------------
(* Calls with an id that matches no record. *)

\* the operations that take the id of a record
IdOps ==
    {"toggle_todo", "edit_todo", "cycle_priority", "delete_todo",
     "edit_journal_entry", "delete_journal_entry", "delete_mood", "edit_goal",
     "delete_goal", "check_in_goal", "end_event", "edit_event_time",
     "delete_event"}

\* C18: toggle_todo, edit_todo, cycle_priority, delete_todo,
\* edit_journal_entry, delete_journal_entry, delete_mood, edit_goal,
\* delete_goal, check_in_goal, end_event, edit_event_time and delete_event
\* called with an id that matches no record raise nothing and leave every
\* collection and every record as it was.
C18_UnknownIdNoOp ==
    [][(last'.op \in IdOps /\ ~last'.found) => memory' = memory]_vars

\* a call with an unknown id returned on a store that holds a record of the
\* collection it names
C18_Witness ==
    \/ last.op \in {"toggle_todo", "edit_todo", "cycle_priority", "delete_todo"}
          /\ ~last.found /\ todos # <<>>
    \/ last.op \in {"edit_journal_entry", "delete_journal_entry"}
          /\ ~last.found /\ journal # <<>>
    \/ last.op = "delete_mood" /\ ~last.found /\ moods # <<>>
    \/ last.op \in {"edit_goal", "delete_goal", "check_in_goal"}
          /\ ~last.found /\ goals # <<>>
    \/ last.op \in {"end_event", "edit_event_time", "delete_event"}
          /\ ~last.found /\ timeline # <<>>

----------------------------------------------------------------------------
(* Identifiers: _new_id returns the first eight hex digits of a random     *)
(* uuid4 and looks at no collection, so the stream of identifiers is any   *)
(* sequence of values.                                                     *)

IdValues == 1 .. MaxIds

\* the state after DataManager() on a machine without a data file, with any
\* values of uuid4 to come
InitIds ==
    /\ clock = BootTick
    /\ issued = 0
    /\ uuids \in [1 .. MaxIds -> IdValues]
    /\ todos = <<>>
    /\ journal = <<>>
    /\ moods = <<>>
    /\ goals = <<>>
    /\ notes = <<>>
    /\ timeline = <<>>
    /\ settings = DEFAULT_SETTINGS
    /\ disk = NoFile
    /\ last = NoCall

NextIds ==
    \/ AddTodo("a", "medium")
    \/ \E id \in IdValues : DeleteTodo(id)
    \/ AddNote("n", "")
    \/ \E id \in IdValues : DeleteNote(id)
    \/ AddGoal("run", "")
    \/ \E id \in IdValues : DeleteGoal(id)

SpecIds == InitIds /\ [][NextIds]_vars

\* no two records of the list share an id
UniqueIds(seq) ==
    \A i \in 1 .. Len(seq) : \A j \in 1 .. Len(seq) :
        seq[i].id = seq[j].id => i = j

\* C19: identifiers are unique within their collection and never reused:
\* after any sequence of add and delete operations no two records of the
\* same collection share an id (which a new record receiving the id of an
\* existing one would break).
C19_IdsUniquePerCollection ==
    /\ UniqueIds(todos)
    /\ UniqueIds(notes)
    /\ UniqueIds(goals)

\* the part of C19 the code keeps: the records of a collection have
\* different ids as long as uuid4 returned different values
UniqueWhenDrawnDistinct ==
    (\A i \in 1 .. issued : \A j \in 1 .. issued :
        uuids[i] = uuids[j] => i = j)
    => C19_IdsUniquePerCollection

----------------------------------------------------------------------------
(* Statistics: the moods of get_stats. *)

MaxMoods == 2        \* moods in a stored list

MoodLabels == {"amazing", "great", "good", "okay", "bad", "terrible"}

\* MOOD_SCORES.get(mood, 2)
mood_score(mood) ==
    CASE mood = "amazing" -> 5
      [] mood = "great" -> 4
      [] mood = "good" -> 3
      [] mood = "okay" -> 2
      [] mood = "bad" -> 1
      [] mood = "terrible" -> 0
      [] OTHER -> 2

\* the moods dated after the cutoff day only
recent_moods_after_cutoff(md, cutoff) ==
    SelectSeq(md, LAMBDA m : m.date > cutoff)

\* [m for m in moods if m.get("date", "") >= cutoff]
recent_moods(md, cutoff) == SelectSeq(md, LAMBDA m : m.date >= cutoff)

\* sum(self.MOOD_SCORES.get(m["mood"], 2) for m in recent_moods)
RECURSIVE mood_sum(_)
mood_sum(recent) ==
    IF recent = <<>> THEN 0
    ELSE mood_score(Head(recent).mood) + mood_sum(Tail(recent))

\* the fields total_moods and avg_mood_score of get_stats; the quotient
\* mood_sum / len(recent_moods) is kept as the pair of its two terms
get_stats(md, stats_days, today) ==
    LET recent == recent_moods(md, today - stats_days)
    IN  [total_moods |-> Len(md),
         avg_mood_score |-> IF recent # <<>>
                            THEN [num |-> mood_sum(recent), den |-> Len(recent)]
                            ELSE None,
         stats_days |-> stats_days]

\* get_event_duration_minutes cut at the end of the day the event starts on
get_event_duration_minutes_one_day(event, now) ==
    LET start == fromisoformat(event.start_time)
        end == IF event.end_time # None THEN fromisoformat(event.end_time)
               ELSE now
    IN  Min(end, (start \div DayTicks + 1) * DayTicks) - start

\* DataManager.get_event_duration_minutes when datetime.now() returns now:
\* the span end - start, kept in clock ticks (minutes and hours are this
\* number divided by a constant)
get_event_duration_minutes(event, now) ==
    LET start == fromisoformat(event.start_time)
        end == IF event.end_time # None THEN fromisoformat(event.end_time)
               ELSE now
    IN  end - start

\* the loop of get_stats over the timeline: hours_by_activity[name] grows by
\* the duration of every event whose date is not before the cutoff
RECURSIVE hours_loop(_, _, _, _)
hours_loop(tl, cutoff, now, hours) ==
    IF tl = <<>> THEN hours
    ELSE LET ev == Head(tl)
         IN  IF ev.date >= cutoff
             THEN hours_loop(Tail(tl), cutoff, now,
                             SetKey(hours, ev.name,
                                    Get(hours, ev.name, 0)
                                    + get_event_duration_minutes(ev, now)))
             ELSE hours_loop(Tail(tl), cutoff, now, hours)

\* sum(hours_by_activity.values())
RECURSIVE sum_values(_)
sum_values(hours) ==
    IF DOMAIN hours = {} THEN 0
    ELSE LET k == CHOOSE k \in DOMAIN hours : TRUE
         IN  hours[k] + sum_values([n \in DOMAIN hours \ {k} |-> hours[n]])

\* sum(1 for t in todos if t["done"])
RECURSIVE count_done(_)
count_done(td) ==
    IF td = <<>> THEN 0
    ELSE (IF Head(td).done THEN 1 ELSE 0) + count_done(Tail(td))

\* the todo and timeline fields of get_stats
get_stats_counts(td, tl, stats_days, today, now) ==
    LET hours == hours_loop(tl, today - stats_days, now, <<>>)
    IN  [total_todos |-> Len(td),
         done_todos |-> count_done(td),
         pending_todos |-> Len(td) - count_done(td),
         hours_by_activity |-> hours,
         total_tracked_hours |-> sum_values(hours)]

\* DataManager.get_stats: the settings property is read (and fills in the
\* defaults), then date.today() for the cutoff and datetime.now() for the
\* end of a running event; the clock stays within the bounded days
GetStats ==
    \E c \in LaterReads(clock) : \E c2 \in LaterReads(clock) :
        /\ c <= c2
        /\ c2 < NumDays * DayTicks
        /\ settings' = settings_read(settings)
        /\ clock' = c2
        /\ last' = [op |-> "get_stats", today |-> today_str(c), now |-> c2,
                    ret |-> get_stats(moods, Get(settings', "stats_days",
                                                 DefaultStatsDays),
                                      today_str(c))
                            @@ get_stats_counts(todos, timeline,
                                                Get(settings', "stats_days",
                                                    DefaultStatsDays),
                                                today_str(c), c2)]
        /\ UNCHANGED <<issued, uuids, todos, journal, moods, goals, notes,
                       timeline, disk>>

\* the windows a user sets
StatsWindows == {0, 1, 2}

\* the stored moods: logged on any day up to today, in the order of logging
InitStats ==
    /\ clock \in 0 .. (NumDays * DayTicks - 1)
    /\ issued = MaxMoods
    /\ uuids = FreshIds
    /\ todos = <<>>
    /\ journal = <<>>
    /\ \E n \in 0 .. MaxMoods :
          \E md \in [1 .. n -> [mood : MoodLabels, date : 0 .. today_str(clock)]] :
             /\ \A i \in 1 .. (n - 1) : md[i].date <= md[i + 1].date
             /\ moods = [i \in 1 .. n |->
                            [id |-> i, mood |-> md[i].mood, note |-> "",
                             date |-> md[i].date,
                             created_at |-> <<md[i].date, 0>>]]
    /\ goals = <<>>
    /\ notes = <<>>
    /\ timeline = <<>>
    /\ settings \in {DEFAULT_SETTINGS}
                    \cup {[stats_days |-> w] : w \in StatsWindows}
    /\ disk = save_all(<<>>, <<>>, moods, <<>>, <<>>, <<>>, settings)
    /\ last = NoCall

NextStats ==
    \/ GetStats
    \/ \E id \in 1 .. MaxMoods : DeleteMood(id)
    \/ NextDay

SpecStats == InitStats /\ [][NextStats]_vars

\* the score of a mood label: terrible = 0 ... amazing = 5
ScoreOf(mood) ==
    LET scale == <<"terrible", "bad", "okay", "good", "great", "amazing">>
    IN  (CHOOSE k \in 1 .. 6 : scale[k] = mood) - 1

\* the positions of the moods whose date is within the stats_days days up
\* to the given day
InStatsWindow(today, stats_days) ==
    {i \in 1 .. Len(moods) :
        /\ moods[i].date <= today
        /\ today - moods[i].date <= stats_days}

RECURSIVE ScoreTotal(_)
ScoreTotal(S) ==
    IF S = {} THEN 0
    ELSE LET i == CHOOSE i \in S : TRUE
         IN  ScoreOf(moods[i].mood) + ScoreTotal(S \ {i})

\* C20: get_stats reports avg_mood_score as the mean of the scores
\* (terrible = 0 ... amazing = 5) of exactly the moods whose date falls
\* within the trailing window of stats_days days, and as None when no mood
\* falls within it; total_moods counts all moods.
C20_AvgMoodOverWindow ==
    last.op = "get_stats" =>
        LET W == InStatsWindow(last.today, last.ret.stats_days)
            avg == last.ret.avg_mood_score
        IN  /\ last.ret.total_moods = Len(moods)
            /\ (W = {}) <=> (avg = None)
            /\ W # {} =>
                  /\ avg.den = Cardinality(W)
                  /\ avg.num = ScoreTotal(W)

\* two moods were stored, one of them before the window, and the average
\* is the score of the other
C20_Witness ==
    /\ last.op = "get_stats"
    /\ Len(moods) = 2
    /\ moods[1].mood # moods[2].mood
    /\ Cardinality(InStatsWindow(last.today, last.ret.stats_days)) = 1
    /\ last.ret.avg_mood_score # None
    /\ last.ret.avg_mood_score.den = 1
    /\ last.ret.total_moods = 2

----------------------------------------------------------------------------
(* Statistics: the todo counts and the hours per activity of get_stats. *)

MaxStatTodos == 2    \* todos in a stored list

ActivityNames == {"work", "rest"}

\* a stored event that began on the given day: at its first or last second,
\* ended at once, on the next day, or still running
StatEvents(day) ==
    UNION {[id : {0}, name : ActivityNames, date : {day},
            start_time : {<<day, sec>>},
            end_time : {None, <<day, sec>>, <<day + 1, 0>>,
                        <<day + 1, DayLen - 1>>}] :
              sec \in {0, DayLen - 1}}

\* the stored todos: n of them, the first k done
StatTodos(n, k) ==
    [i \in 1 .. n |->
        [id |-> i, text |-> "a", done |-> i <= k, priority |-> "medium",
         created_at |-> <<0, 0>>, done_at |-> IF i <= k THEN <<0, 0>> ELSE None]]

\* a store that holds up to MaxEvents events begun on any day up to today,
\* at most one of them running, and up to MaxStatTodos todos
InitHours ==
    /\ clock \in {d * DayTicks + 1 : d \in Days}
    /\ issued = MaxIds
    /\ uuids = FreshIds
    /\ \E n \in 0 .. MaxStatTodos : \E k \in 0 .. n : todos = StatTodos(n, k)
    /\ journal = <<>>
    /\ moods = <<>>
    /\ goals = <<>>
    /\ notes = <<>>
    /\ \E n \in 0 .. MaxEvents :
          \E ev \in [1 .. n -> UNION {StatEvents(d) : d \in 0 .. today_str(clock)}] :
             /\ Cardinality({i \in 1 .. n : ev[i].end_time = None}) <= 1
             /\ timeline = [i \in 1 .. n |-> [ev[i] EXCEPT !.id = i]]
    /\ settings \in {DEFAULT_SETTINGS} \cup {[stats_days |-> w] : w \in {0, 1}}
    /\ disk = save_all(todos, <<>>, <<>>, <<>>, <<>>, timeline, settings)
    /\ last = NoCall

NextHours == GetStats

SpecHours == InitHours /\ [][NextHours]_vars

\* the positions of the events whose origin date is within the stats_days
\* days up to the given day
EventsInWindow(today, stats_days) ==
    {i \in 1 .. Len(timeline) :
        /\ timeline[i].date <= today
        /\ today - timeline[i].date <= stats_days}

\* the full span of an event: from its start to its end, or to now while it
\* is running
FullSpan(ev, now) ==
    (IF ev.end_time = None THEN now ELSE fromisoformat(ev.end_time))
    - fromisoformat(ev.start_time)

RECURSIVE SpanTotal(_, _)
SpanTotal(S, now) ==
    IF S = {} THEN 0
    ELSE LET i == CHOOSE i \in S : TRUE
         IN  FullSpan(timeline[i], now) + SpanTotal(S \ {i}, now)

\* C21: get_stats computes hours_by_activity[name] as the sum of the full
\* (unclamped) durations of exactly the events with that name whose origin
\* date falls within the stats window, total_tracked_hours is the sum of all
\* values of hours_by_activity, and the todo counts are all-time with
\* pending_todos = total_todos - done_todos.
C21_HoursByActivity ==
    last.op = "get_stats" =>
        LET W == EventsInWindow(last.today, last.ret.stats_days)
            hours == last.ret.hours_by_activity
        IN  /\ DOMAIN hours = {timeline[i].name : i \in W}
            /\ \A n \in DOMAIN hours :
                  hours[n] = SpanTotal({i \in W : timeline[i].name = n},
                                       last.now)
            /\ last.ret.total_tracked_hours = SpanTotal(W, last.now)
            /\ last.ret.total_todos = Len(todos)
            /\ last.ret.done_todos
                  = Cardinality({i \in 1 .. Len(todos) : todos[i].done})
            /\ last.ret.pending_todos
                  = last.ret.total_todos - last.ret.done_todos

\* two events of one activity are within the window, one of them across
\* midnight, a third activity-free day lies outside, and one of two todos
\* is done
C21_Witness ==
    /\ last.op = "get_stats"
    /\ Len(timeline) = 2
    /\ timeline[1].name = timeline[2].name
    /\ EventsInWindow(last.today, last.ret.stats_days) = {1, 2}
    /\ \E i \in 1 .. 2 :
          /\ timeline[i].end_time # None
          /\ timeline[i].end_time[1] # timeline[i].start_time[1]
    /\ last.ret.hours_by_activity[timeline[1].name]
          = FullSpan(timeline[1], last.now) + FullSpan(timeline[2], last.now)
    /\ last.ret.hours_by_activity[timeline[1].name] > 0
    /\ last.ret.total_todos = 2
    /\ last.ret.done_todos = 1

----------------------------------------------------------------------------
(* The derived views, called on a store that is being filled. *)

MaxRangeDays == 2    \* days asked of get_events_for_range

\* DataManager.get_events_for_range: the view of each of the last days
\* calendar days, keyed by the day
get_events_for_range(tl, days, today, now) ==
    [d \in {today - i : i \in 0 .. (days - 1)} |->
        get_events_for_date(tl, d, now)]

GetEventsForRange(days) ==
    /\ last' = [op |-> "get_events_for_range", days |-> days,
                ret |-> get_events_for_range(timeline, days,
                                             today_str(clock), clock)]
    /\ UNCHANGED <<clock, issued, uuids, todos, journal, moods, goals, notes,
                   timeline, settings, disk>>

GetEventDurationMinutes(i) ==
    /\ i \in 1 .. Len(timeline)
    /\ last' = [op |-> "get_event_duration_minutes", event |-> timeline[i],
                ret |-> get_event_duration_minutes(timeline[i], clock)]
    /\ UNCHANGED <<clock, issued, uuids, todos, journal, moods, goals, notes,
                   timeline, settings, disk>>

NextViews ==
    \/ AddTodo("a", "medium")
    \/ AddGoal("run", "")
    \/ StartEvent("work")
    \/ GetSortedTodos
    \/ \E i \in 1 .. MaxGoals : GetGoalStreak(i)
    \/ \E i \in 1 .. MaxGoals : GetGoalHistory(i, MaxHistoryDays)
    \/ GetEventsForDate(today_str(clock))
    \/ GetEventsForRange(MaxRangeDays)
    \/ \E i \in 1 .. MaxEvents : GetEventDurationMinutes(i)
    \/ GetStats

SpecViews == Init /\ [][NextViews]_vars

ViewOps ==
    {"get_sorted_todos", "get_goal_streak", "get_goal_history",
     "get_events_for_date", "get_events_for_range",
     "get_event_duration_minutes", "get_stats"}

\* C22: calling get_sorted_todos, get_goal_streak, get_goal_history,
\* get_events_for_date, get_events_for_range, get_event_duration_minutes or
\* get_stats leaves the in-memory document (every collection, every record
\* and the settings map) exactly as it was before the call.
C22_ViewsNeverMutate ==
    [][last'.op \in ViewOps => memory' = memory]_vars

\* the part of C22 the code keeps: every view leaves every collection and
\* every record as it was, and every view but get_stats the settings too;
\* get_stats keeps the settings that were stored and adds the missing
\* defaults
ViewsKeepCollections ==
    [][last'.op \in ViewOps =>
          /\ [memory' EXCEPT !.settings = <<>>]
                = [memory EXCEPT !.settings = <<>>]
          /\ last'.op # "get_stats" => settings' = settings
          /\ \A k \in DOMAIN settings : settings'[k] = settings[k]]_vars

----------------------------------------------------------------------------
(* update_setting followed by a read of the settings. *)

\* update_setting returned, the next read of the settings gives the value
\* for the key, and what it gives for every other key is what a read
\* before the call gave
UpdateThenRead ==
    /\ ~last'.raised
    /\ settings_read(settings')[last'.key] = last'.value
    /\ \A k \in DOMAIN settings_read(settings) \ {last'.key} :
          /\ k \in DOMAIN settings_read(settings')
          /\ settings_read(settings')[k] = settings_read(settings)[k]
    /\ DOMAIN settings_read(settings')
          = DOMAIN settings_read(settings) \cup {last'.key}

\* C23: update_setting(key, value) makes a subsequent settings read return
\* value for key and leaves the value read for every other setting key
\* unchanged, for any document a store can hold after load.
C23_UpdateSettingFrame ==
    [][last'.op = "update_setting" => UpdateThenRead]_vars

\* the part of C23 the code keeps: the same on every document whose settings
\* are a dict
UpdateSettingOnDict ==
    [][(last'.op = "update_setting" /\ settings # EmptyList)
          => UpdateThenRead]_vars

----------------------------------------------------------------------------
(* The order within the two parts of the sorted view. *)

\* the time a done todo counts as completed at: its done_at, or its
\* created_at when it has no done_at
CompletedAt(t) ==
    IF "done_at" \in DOMAIN t THEN fromisoformat(t.done_at)
    ELSE fromisoformat(t.created_at)

\* C24: within get_sorted_todos(), pending todos of equal priority appear in
\* ascending created_at order, done todos in descending done_at order (with
\* created_at in place of an absent done_at), and the result is a
\* permutation of the stored todos.
C24_OrderWithinGroups ==
    last.op = "get_sorted_todos" =>
        LET ret == last.ret
        IN  /\ Len(ret) = Len(todos)
            /\ \A i \in 1 .. Len(ret) : \A j \in 1 .. Len(ret) :
                  i < j => ret[i].id # ret[j].id
            /\ \A i \in 1 .. Len(ret) :
                  \E k \in 1 .. Len(todos) : todos[k] = ret[i]
            /\ \A i \in 1 .. Len(ret) : \A j \in (i + 1) .. Len(ret) :
                  /\ (~ret[i].done /\ ~ret[j].done
                         /\ ret[i].priority = ret[j].priority)
                       => fromisoformat(ret[i].created_at)
                             <= fromisoformat(ret[j].created_at)
                  /\ (ret[i].done /\ ret[j].done)
                       => CompletedAt(ret[i]) >= CompletedAt(ret[j])

\* the view put a done todo without done_at, created late, before a todo
\* that was stored first and done earlier
C24_Witness ==
    /\ last.op = "get_sorted_todos"
    /\ Len(todos) = 3
    /\ \E i \in 1 .. 3 : \E j \in 1 .. 3 :
          /\ i < j
          /\ todos[i].done /\ todos[j].done
          /\ "done_at" \in DOMAIN todos[i]
          /\ "done_at" \notin DOMAIN todos[j]
          /\ CompletedAt(todos[j]) > CompletedAt(todos[i])
          /\ \E a \in 1 .. 3 : \E b \in 1 .. 3 :
                a < b /\ last.ret[a] = todos[j] /\ last.ret[b] = todos[i]

\* the view exchanged two pending todos of one priority, the later one
\* created first
C24_WitnessPending ==
    /\ last.op = "get_sorted_todos"
    /\ Len(todos) = 2
    /\ ~todos[1].done /\ ~todos[2].done
    /\ todos[1].priority = todos[2].priority
    /\ fromisoformat(todos[2].created_at) < fromisoformat(todos[1].created_at)
    /\ last.ret[1] = todos[2]
    /\ last.ret[2] = todos[1]

----------------------------------------------------------------------------
(* The running event in the view of today. *)

\* the events of the timeline that run at the given time: no end_time, and
\* a start_time that is not later
RunningAt(now) ==
    {i \in 1 .. Len(timeline) :
        /\ timeline[i].end_time = None
        /\ fromisoformat(timeline[i].start_time) <= now}

\* C25: while an event is active and its start_time is not later than now,
\* get_events_for_date(today) includes it, at every value of the current
\* time, the day boundary included.
C25_ActiveShownToday ==
    (last.op = "get_events_for_date"
        /\ last.target_date = today_str(last.now))
    => \A i \in RunningAt(last.now) :
          timeline[i].id \in ReturnedIds(last.ret)

\* the part of C25 the code keeps: the same at every time that is not
\* exactly 00:00:00
ActiveShownOffMidnight ==
    (last.op = "get_events_for_date"
        /\ last.target_date = today_str(last.now)
        /\ last.now % DayTicks # 0)
    => \A i \in RunningAt(last.now) :
          timeline[i].id \in ReturnedIds(last.ret)

----------------------------------------------------------------------------
(* What edit_event_time changes. *)

\* C26: edit_event_time(id, start_time, end_time) overwrites exactly the
\* supplied timestamps of the matching event with the caller's values,
\* whatever their order; an argument left as None leaves that field as it
\* was; the event's id, name and date and all other events are unchanged;
\* an ended event is never made active again.
C26_EditEventTimeFrame ==
    [][(last'.op = "edit_event_time" /\ last'.found) =>
          LET i == FirstWithId(timeline, last'.event_id)
              old == timeline[i]
              new == timeline'[i]
          IN  /\ Len(timeline') = Len(timeline)
              /\ \A j \in 1 .. Len(timeline) : j # i => timeline'[j] = timeline[j]
              /\ DOMAIN new = DOMAIN old
              /\ new.id = old.id /\ new.name = old.name /\ new.date = old.date
              /\ new.start_time = IF last'.start_time = None THEN old.start_time
                                  ELSE last'.start_time
              /\ new.end_time = IF last'.end_time = None THEN old.end_time
                                ELSE last'.end_time
              /\ old.end_time # None => new.end_time # None
              /\ todos' = todos /\ journal' = journal /\ moods' = moods
              /\ goals' = goals /\ notes' = notes /\ settings' = settings
      ]_vars

\* an edit gave the first of two events an end before its start and left
\* the active second event alone
C26_Witness ==
    /\ last.op = "edit_event_time"
    /\ last.found
    /\ last.start_time = None
    /\ last.end_time # None
    /\ Len(timeline) = 2
    /\ timeline[1].id = last.event_id
    /\ timeline[1].end_time = last.end_time
    /\ fromisoformat(timeline[1].end_time)
          < fromisoformat(timeline[1].start_time)
    /\ timeline[2].end_time = None

----------------------------------------------------------------------------
(* What the delete operations remove. *)

\* the collection each delete operation works on
DeleteOps ==
    [delete_todo |-> "todos", delete_journal_entry |-> "journal",
     delete_mood |-> "moods", delete_goal |-> "goals",
     delete_event |-> "timeline"]

\* the list without its i-th record, the others in their order
Without(seq, i) ==
    [j \in 1 .. (Len(seq) - 1) |-> IF j < i THEN seq[j] ELSE seq[j + 1]]

----------------------------------------------------------------------------
(* Tracking with start_event and end_event alone: the order of the events  *)
(* in time.                                                                *)

NextStartEnd ==
    \/ \E name \in EventNames : StartEvent(name)
    \/ \E id \in KnownIds : EndEvent(id)
    \/ Tick

SpecStartEnd == Init /\ [][NextStartEnd]_vars

\* no event of tl stored before another is still running or ends after the
\* other starts
NoOverlap(tl) ==
    \A i \in 1 .. Len(tl) : \A j \in (i + 1) .. Len(tl) :
        /\ tl[i].end_time # None
        /\ fromisoformat(tl[i].end_time) <= fromisoformat(tl[j].start_time)

\* C28: under any sequence of start_event and end_event calls (end_event with
\* any existing event id) and a non-decreasing clock, for events e1 before e2
\* in the timeline list e1.end_time is not None and e1.end_time <=
\* e2.start_time.
C28_NoOverlap == NoOverlap(timeline)

\* a step that sets end_time only on events that had none keeps the order
EndingActiveKeepsOrder ==
    [][(/\ NoOverlap(timeline)
        /\ \A i \in 1 .. Len(timeline) :
              timeline'[i] # timeline[i] => timeline[i].end_time = None)
       => NoOverlap(timeline')]_vars

----------------------------------------------------------------------------
(* Per-day and full durations of an event.                                 *)

MantissaBits == 5     \* significant bits of a float (53 in the build; the
                      \* fractions n/60 repeat with period 4 in binary, so
                      \* 5 bits round them to the same side as 53 do)

\* floats are kept as integer multiples of 2^-FloatScaleBits
FloatScaleBits == MantissaBits + 8
FloatScale == 2 ^ FloatScaleBits

\* the float nearest to a/b for a > 0 (in units of 2^-FloatScaleBits), ties
\* to even
float_round_positive(a, b) ==
    LET e == CHOOSE k \in 0 .. FloatScaleBits :
                 (2 ^ k) * b <= a /\ a < (2 ^ (k + 1)) * b
        q == 2 ^ (e - MantissaBits + 1)
        lo == a \div (b * q)
        r == a - lo * b * q
        n == IF 2 * r < b * q THEN lo
             ELSE IF 2 * r > b * q THEN lo + 1
             ELSE IF lo % 2 = 0 THEN lo ELSE lo + 1
    IN  n * q

\* the float nearest to a/b, b > 0
float_round(a, b) ==
    IF a = 0 THEN 0
    ELSE IF a > 0 THEN float_round_positive(a, b)
    ELSE 0 - float_round_positive(0 - a, b)

\* x + y on floats
float_add(x, y) == float_round(x + y, 1)

\* (end - start).total_seconds() / 60.0 for a span of t clock ticks
total_seconds_div_60(t) == float_round(t * FloatScale, SubSec * 60)

\* get_event_day_duration_minutes without the clamped times
get_event_day_duration_minutes_full(event, now) ==
    get_event_duration_minutes(event, now)

\* DataManager.get_event_day_duration_minutes: the span between _day_start
\* and _day_end when the entry has both, else the full span; in clock ticks,
\* as get_event_duration_minutes
get_event_day_duration_minutes(event, now) ==
    IF "_day_start" \in DOMAIN event /\ "_day_end" \in DOMAIN event
    THEN fromisoformat(event["_day_end"]) - fromisoformat(event["_day_start"])
    ELSE get_event_duration_minutes(event, now)

\* the entries of the event with the id in one day's view
EntriesOf(view, id) == SelectSeq(view, LAMBDA en : en.id = id)

\* a caller asks the view of every day for event i of the timeline and the
\* per-day duration of each entry, then the full duration of the event
DayDurations(i) ==
    /\ i \in 1 .. Len(timeline)
    /\ LET ev == timeline[i]
           entries == [d \in Days |->
                          EntriesOf(get_events_for_date(timeline, d, clock),
                                    ev.id)]
       IN  last' = [op |-> "day_durations", event |-> ev,
                    spans |-> [d \in Days |->
                       [k \in 1 .. Len(entries[d]) |->
                           get_event_day_duration_minutes(entries[d][k],
                                                          clock)]],
                    minutes |-> [d \in Days |->
                       [k \in 1 .. Len(entries[d]) |->
                           total_seconds_div_60(
                               get_event_day_duration_minutes(entries[d][k],
                                                              clock))]],
                    full_span |-> get_event_duration_minutes(ev, clock),
                    full |-> total_seconds_div_60(
                                 get_event_duration_minutes(ev, clock))]
    /\ UNCHANGED <<clock, issued, uuids, todos, journal, moods, goals, notes,
                   timeline, settings, disk>>

NextDayDurations == \E i \in 1 .. MaxEvents : DayDurations(i)

SpecDayDurations == InitEvents /\ [][NextDayDurations]_vars

\* the sum of the values of per_day over the days from d on, exact
RECURSIVE SumFrom(_, _)
SumFrom(per_day, d) ==
    IF d >= NumDays THEN 0
    ELSE (IF per_day[d] = <<>> THEN 0 ELSE per_day[d][1])
         + SumFrom(per_day, d + 1)

\* the float sum of the values of per_day, day after day, starting from acc
RECURSIVE FloatSumFrom(_, _, _)
FloatSumFrom(per_day, d, acc) ==
    IF d >= NumDays THEN acc
    ELSE FloatSumFrom(per_day, d + 1,
                      IF per_day[d] = <<>> THEN acc
                      ELSE float_add(acc, per_day[d][1]))

\* the durations asked were those of an ended event with start_time <=
\* end_time
EndedEventAsked ==
    /\ last.op = "day_durations"
    /\ last.event.end_time # None
    /\ fromisoformat(last.event.start_time)
           <= fromisoformat(last.event.end_time)

\* every per-day duration lies between 0 and the minutes of one day
DayDurationsInRange ==
    \A d \in Days : \A k \in 1 .. Len(last.minutes[d]) :
        /\ Len(last.minutes[d]) = 1
        /\ 0 <= last.minutes[d][k]
        /\ last.minutes[d][k] <= total_seconds_div_60(DayTicks)

\* C29 as stated: for every ended event with start_time <= end_time, the
\* per-day durations in minutes, summed over all days, equal the full
\* duration in minutes, and each lies between 0 and one day.
C29_DayMinutesSumToFull ==
    EndedEventAsked =>
        /\ FloatSumFrom(last.minutes, 0, 0) = last.full
        /\ DayDurationsInRange

\* C29: for every ended event with start_time <= end_time, the clamped
\* spans of its entries, summed over all days, equal end_time - start_time
\* exactly, and each per-day duration in minutes lies between 0 and one day.
C29_DaySpansSumToFull ==
    EndedEventAsked =>
        /\ SumFrom(last.spans, 0) = last.full_span
        /\ DayDurationsInRange

\* the durations of an event that ran over a midnight were asked: it has
\* entries on two days at least, each with a span of its own
C29_Witness ==
    /\ EndedEventAsked
    /\ \E d \in Days : \E f \in Days :
          /\ d < f
          /\ last.spans[d] # <<>> /\ last.spans[f] # <<>>
          /\ last.spans[d][1] > 0 /\ last.spans[f][1] > 0
          /\ last.spans[d][1] < last.full_span

----------------------------------------------------------------------------
(* The edit-time flow of the timeline panel: the start prompt, then the    *)
(* end prompt. The open prompt and _editing_event are kept in last.        *)

LastHour == DayLen - 1    \* 23 of the range test, on a day of DayLen hours
LastMinute == 0           \* 59 of the range test, on hours of one minute

\* what an InputModal hands to its callback: the sentinel _CANCELLED, or the
\* text, kept as its parts value.strip().split(":"), each a number int()
\* accepts or not; the empty text has no part
Cancelled == [cancelled |-> TRUE, parts |-> <<>>]
Text(parts) == [cancelled |-> FALSE, parts |-> parts]
Num(n) == [numeric |-> TRUE, n |-> n]
NotNum == [numeric |-> FALSE, n |-> 0]

\* the validation of HH:MM in both callbacks: None when int() raises
\* ValueError, parts[1] raises IndexError or the range test fails, else the
\* hour and the minute
parse_hhmm(value) ==
    LET parts == value.parts
    IN  IF ~parts[1].numeric THEN None
        ELSE IF Len(parts) < 2 THEN None
        ELSE IF ~parts[2].numeric THEN None
        ELSE IF ~(/\ 0 <= parts[1].n /\ parts[1].n <= LastHour
                  /\ 0 <= parts[2].n /\ parts[2].n <= LastMinute) THEN None
        ELSE [h |-> parts[1].n, m |-> parts[2].n]

\* f"{event_date}T{h:02d}:{m:02d}:00"
hhmm_on(event_date, t) == <<event_date, t.h * (LastMinute + 1) + t.m>>

\* ev.get("date", ev["start_time"][:10])
event_date_of(ev) ==
    IF "date" \in DOMAIN ev THEN ev.date ELSE ev.start_time[1]

\* the end time kept on the event's date even when it is before the start
rolled_end_same_day(new_end_dt, start_dt) == new_end_dt

\* if new_end_dt < start_dt: new_end_dt += timedelta(days=1)
rolled_end(new_end_dt, start_dt) ==
    IF new_end_dt < start_dt THEN new_end_dt + DayTicks ELSE new_end_dt

\* the texts typed into a prompt
EditInputs ==
    {Cancelled, Text(<<>>), Text(<<NotNum>>), Text(<<Num(1)>>),
     Text(<<Num(1), NotNum>>), Text(<<Num(0), Num(0), Num(0)>>)}
    \cup {Text(<<Num(h), Num(0)>>) : h \in (0 - 1) .. (LastHour + 1)}
    \cup {Text(<<Num(0), Num(m)>>) : m \in {0 - 1, LastMinute + 1}}

\* action_edit_item on the timeline panel: the selected entry k of the view
\* of the day shown becomes _editing_event and the start prompt opens
ActionEditItem(viewed_date, k) ==
    /\ last.op \notin {"edit_start_prompt", "edit_end_prompt"}
    /\ LET events == get_events_for_date(timeline, viewed_date, clock)
       IN  /\ k \in 1 .. Len(events)
           /\ last' = [op |-> "edit_start_prompt", editing |-> events[k]]
    /\ UNCHANGED <<clock, issued, uuids, todos, journal, moods, goals, notes,
                   timeline, settings, disk>>

\* _on_edit_event_start
OnEditEventStart(value) ==
    /\ last.op = "edit_start_prompt"
    /\ LET ev == last.editing
           t == IF value.cancelled \/ value.parts = <<>> THEN None
                ELSE parse_hhmm(value)
       IN  IF t = None
           THEN /\ last' = [op |-> "on_edit_event_start", applied |-> FALSE]
                /\ UNCHANGED <<timeline, disk>>
           ELSE /\ timeline' = edit_event_time(timeline, ev.id,
                                   hhmm_on(event_date_of(ev), t), None)
                /\ disk' = save(todos, goals, timeline', settings)
                /\ last' = IF ev.end_time # None
                           THEN [op |-> "edit_end_prompt", editing |-> ev]
                           ELSE [op |-> "on_edit_event_start",
                                 applied |-> TRUE]
    /\ UNCHANGED <<clock, issued, uuids, todos, journal, moods, goals, notes,
                   settings>>

\* _on_edit_event_end
OnEditEventEnd(value) ==
    /\ last.op = "edit_end_prompt"
    /\ LET ev == last.editing
           t == IF value.cancelled \/ value.parts = <<>> THEN None
                ELSE parse_hhmm(value)
           i == FirstWithId(timeline, ev.id)
           fresh_ev == IF i = 0 THEN ev ELSE timeline[i]
       IN  IF t = None
           THEN /\ last' = [op |-> "on_edit_event_end", id |-> ev.id,
                            submitted |-> FALSE, typed |-> None,
                            end_before |-> fresh_ev.end_time]
                /\ UNCHANGED <<timeline, disk>>
           ELSE LET new_end_dt ==
                        rolled_end(
                            fromisoformat(hhmm_on(event_date_of(ev), t)),
                            fromisoformat(fresh_ev.start_time))
                IN  /\ timeline' = edit_event_time(timeline, ev.id, None,
                                                   isoformat(new_end_dt))
                    /\ disk' = save(todos, goals, timeline', settings)
                    /\ last' = [op |-> "on_edit_event_end", id |-> ev.id,
                                submitted |-> TRUE,
                                typed |-> hhmm_on(event_date_of(ev), t),
                                end_before |-> fresh_ev.end_time]
    /\ UNCHANGED <<clock, issued, uuids, todos, journal, moods, goals, notes,
                   settings>>

\* a store that holds one or two timeline events when the panel is opened
InitEdit ==
    /\ InitEvents
    /\ clock = BootTick

NextEdit ==
    \/ \E viewed_date \in Days : \E k \in 1 .. MaxEvents :
          ActionEditItem(viewed_date, k)
    \/ \E value \in EditInputs : OnEditEventStart(value)
    \/ \E value \in EditInputs : OnEditEventEnd(value)

SpecEdit == InitEdit /\ [][NextEdit]_vars

\* C30: in the edit-time flow for an ended event, whenever a valid end time
\* is submitted the stored end_time is not earlier than the stored
\* start_time, an end that would fall before the start being moved to the
\* next day; when the end prompt is cancelled or given invalid input the
\* stored end_time is left as it was.
C30_EditFlowEndNotBeforeStart ==
    last.op = "on_edit_event_end" =>
        LET ev == timeline[FirstWithId(timeline, last.id)]
            start_dt == fromisoformat(ev.start_time)
            typed_dt == fromisoformat(last.typed)
        IN  IF last.submitted
            THEN /\ fromisoformat(ev.end_time) >= start_dt
                 /\ ev.end_time = IF typed_dt < start_dt
                                  THEN <<last.typed[1] + 1, last.typed[2]>>
                                  ELSE last.typed
            ELSE ev.end_time = last.end_before

\* a valid end time before the start was submitted and is stored on the
\* next day
C30_Witness ==
    /\ last.op = "on_edit_event_end"
    /\ last.submitted
    /\ LET ev == timeline[FirstWithId(timeline, last.id)]
       IN  /\ fromisoformat(last.typed) < fromisoformat(ev.start_time)
           /\ ev.end_time[1] = ev.date + 1
           /\ ev.end_time # last.end_before

============================================================================
